---- MODULE Spec2Model ----
(***************************************************************************)
(* Model of the integration middleware: the per-request dispatch bridge    *)
(* (ServiceBase.createRequestHandler, src/defs/worker.ts), the SAML        *)
(* service routes (SAMLService.init, src/unnamed/part_001) and the SAML    *)
(* worker run inside each worker thread (SamlWorker, src/unnamed/part_002).*)
(*                                                                         *)
(* Runtime conventions taken from Node.js worker_threads: an exception     *)
(* that escapes a callback of the worker, or a promise rejection nobody    *)
(* handles, is an uncaught exception of the worker thread: the thread      *)
(* stops and the parent's Worker object emits one 'error' event.           *)
(***************************************************************************)
EXTENDS Integers, Sequences, FiniteSets, TLC

(* ------------------------------ bounds --------------------------------- *)

\* Number of HTTP requests handled in one behaviour.
MaxRequests == 2

\* The number of calls of readFile followed on one options object.
MaxLoads == 2

(* ------------------------ strings as characters ------------------------ *)

\* Texts that travel through URL encoding are sequences of one-character
\* strings, so that encoding and decoding are computed, not assumed.
RelayStateAcme ==
    <<"{", "\"", "o", "r", "i", "g", "i", "n", "\"", ":", "\"", "x", "\"",
      ",", "\"", "a", "p", "p", "N", "a", "m", "e", "\"", ":", "\"", "a",
      "c", "m", "e", "\"", ",", "\"", "i", "d", "p", "N", "a", "m", "e",
      "\"", ":", "\"", "o", "k", "t", "a", "\"", "}">>

RelayStateReordered ==
    <<"{", "\"", "i", "d", "p", "N", "a", "m", "e", "\"", ":", "\"", "o",
      "k", "t", "a", "\"", ",", " ", "\"", "a", "p", "p", "N", "a", "m",
      "e", "\"", ":", "\"", "a", "c", "m", "e", "\"", "}">>

RelayStateUnknownIdp ==
    <<"{", "\"", "a", "p", "p", "N", "a", "m", "e", "\"", ":", "\"", "a",
      "c", "m", "e", "\"", ",", "\"", "i", "d", "p", "N", "a", "m", "e",
      "\"", ":", "\"", "e", "v", "i", "l", "\"", "}">>

RelayStateMalformed ==
    <<"o", "o", "p", "s">>

\* The RelayState of a login to portal, an application without LocalClientUrl.
RelayStatePortal ==
    <<"{", "\"", "a", "p", "p", "N", "a", "m", "e", "\"", ":", "\"", "p",
      "o", "r", "t", "a", "l", "\"", ",", "\"", "i", "d", "p", "N", "a", "m",
      "e", "\"", ":", "\"", "o", "k", "t", "a", "\"", "}">>

RelayStateTexts ==
    {RelayStateAcme, RelayStateReordered, RelayStateUnknownIdp, RelayStateMalformed}

NoText == <<>>

(* ----------------------------- settings -------------------------------- *)

ServiceName == "SAML"

Title == "SAML Service Provider Middleware"

\* The .ini sections the deployment defines besides [Main] and [SAML]: the
\* client applications and one identity provider. The cookie domain of kanji is
\* an internationalised name written in its own script.
AppSections == {"acme", "portal", "kanji"}

IdpSections == {"okta"}

HasSection(name) == name \in {ServiceName} \cup AppSections \cup IdpSections

CookieDomainOf(appName) ==
    CASE appName = "acme" -> ".acme.test"
      [] appName = "portal" -> ".portal.test"
      [] appName = "kanji" -> ".<U+4F8B><U+3048>.test"
      [] OTHER -> "undefined"

CookiePathOf(appName) ==
    CASE appName = "acme" -> "/"
      [] appName = "portal" -> "/portal"
      [] appName = "kanji" -> "/"
      [] OTHER -> "undefined"

\* LocalClientUrl is set for acme and left unset for portal.
LocalClientUrlOf(appName) ==
    CASE appName = "acme" -> "https://acme.test/app"
      [] OTHER -> ""

IDPLoginEndpointOf(idpName) ==
    CASE idpName = "okta" -> "https://okta.test/sso/login"
      [] OTHER -> "undefined"

\* The services the start-up script registers: AiService and SAMLService.
ServiceNames == {"AI", "SAML"}

\* [Main].Debug with [SAML].CookieSecure and [SAML].CookieTimeout (minutes,
\* 0 when unset), the services whose section says Enabled, and [AI].Service.
Settings(debug, cookieTimeout) ==
    [Debug |-> debug, CookieSecure |-> TRUE, CookieTimeout |-> cookieTimeout,
     Enabled |-> {"SAML"}, Service |-> "OpenAI"]

\* The configurations the model starts from.
SettingsSet == {Settings(TRUE, 5), Settings(FALSE, 0)}

\* The configurations the start-up is followed from: each service enabled or
\* not, and [AI].Service naming a supported or an unsupported provider.
ServerSettingsSet ==
    {[Settings(TRUE, 5) EXCEPT !.Enabled = e, !.Service = s] :
        e \in SUBSET ServiceNames, s \in {"OpenAI", "Dialogflow"}}

(* --------------------------- pure functions ---------------------------- *)

\* Subject identifiers the identity provider may assert, and the fixed one of
\* the test endpoint.
TestNameId == "john.doe@test.xyz"

RawNameIds == {"alice@example.com", "bob@example.com", TestNameId}

\* crypto.createHash('sha256').update(x).digest('hex'): the digests of the
\* identifiers above.
Sha256Hex(x) ==
    CASE x = "alice@example.com" ->
           "ff8d9819fc0e12bf0d24892e45987e249a28dce836a85cad60e28eaaa8c6d976"
      [] x = "bob@example.com" ->
           "5ff860bf1190596c7188ab851db691f0f3169c453936e9e1eba2f9a47f7a0018"
      [] x = "john.doe@test.xyz" ->
           "353a30301872a1dfc35e9d080c94dc57464d59644e91fc1e011307dc5e1ff0bc"
      [] OTHER -> "e3b0c44298fc1c149afbf4c8996fb92427ae41e4649b934ca495991b7852b855"

IsSha256Hex(v) == \E x \in RawNameIds : v = Sha256Hex(x)

\* JSON.parse of a RelayState text. ok = FALSE stands for the SyntaxError
\* JSON.parse throws; a member the text does not carry reads as "undefined".
JSONParse(text) ==
    CASE text = RelayStateAcme ->
           [ok |-> TRUE, origin |-> "x", appName |-> "acme", idpName |-> "okta"]
      [] text = RelayStateReordered ->
           [ok |-> TRUE, origin |-> "undefined", appName |-> "acme", idpName |-> "okta"]
      [] text = RelayStateUnknownIdp ->
           [ok |-> TRUE, origin |-> "undefined", appName |-> "acme", idpName |-> "evil"]
      [] text = RelayStatePortal ->
           [ok |-> TRUE, origin |-> "undefined", appName |-> "portal", idpName |-> "okta"]
      [] OTHER ->
           [ok |-> FALSE, origin |-> "undefined", appName |-> "undefined",
            idpName |-> "undefined"]

\* Characters querystring.escape leaves alone (those the texts use).
Unreserved ==
    {"a", "c", "d", "e", "g", "i", "k", "l", "m", "n", "o", "p", "r", "s", "t",
     "v", "x", "N"}

\* Percent-encoding of one character.
EscapeChar(c) ==
    CASE c \in Unreserved -> <<c>>
      [] c = "{" -> <<"%", "7", "B">>
      [] c = "}" -> <<"%", "7", "D">>
      [] c = "\"" -> <<"%", "2", "2">>
      [] c = ":" -> <<"%", "3", "A">>
      [] c = "," -> <<"%", "2", "C">>
      [] c = " " -> <<"%", "2", "0">>
      [] OTHER -> <<"%", "3", "F">>

RECURSIVE Escape(_)
Escape(text) ==
    IF text = <<>> THEN <<>> ELSE EscapeChar(Head(text)) \o Escape(Tail(text))

\* The character a percent escape stands for.
UnescapeHex(h1, h2) ==
    CASE h1 = "7" /\ h2 = "B" -> "{"
      [] h1 = "7" /\ h2 = "D" -> "}"
      [] h1 = "2" /\ h2 = "2" -> "\""
      [] h1 = "3" /\ h2 = "A" -> ":"
      [] h1 = "2" /\ h2 = "C" -> ","
      [] h1 = "2" /\ h2 = "0" -> " "
      [] OTHER -> "?"

RECURSIVE Unescape(_)
Unescape(enc) ==
    IF enc = <<>> THEN <<>>
    ELSE IF Head(enc) = "%" /\ Len(enc) >= 3
         THEN <<UnescapeHex(enc[2], enc[3])>> \o Unescape(SubSeq(enc, 4, Len(enc)))
         ELSE <<Head(enc)>> \o Unescape(Tail(enc))

(* ------------------------------ errors --------------------------------- *)

Err(name, message) == [name |-> name, message |-> message]

UnknownEndpointError(endpoint) ==
    Err("Error", <<"Unknown endpoint: ", endpoint,
                   ". Method not found or not callable on worker.">>)

CredentialUnreadableError ==
    Err("Error", <<"Cannot read Service Provider or Identity Provider settings. Check file paths and permissions.">>)

InvalidPropertyError ==
    Err("Error", <<"Invalid option property provided for file content.">>)

CannotConnectError ==
    Err("Error", <<"Cannot connect to database for SAML session storage.">>)

CannotExecuteError ==
    Err("Error", <<"Cannot execute SQL statement for SAML session storage.">>)

\* Errors raised by the runtime and the libraries, with their own messages.
FsErrors ==
    {Err("ENOENT", <<"ENOENT: no such file or directory">>),
     Err("EACCES", <<"EACCES: permission denied">>)}

DbConnectError == Err("ConnectionError", <<"Failed to connect to the database server">>)

DbRequestError == Err("RequestError", <<"Statement execution failed">>)

JsonSyntaxError == Err("SyntaxError", <<"Unexpected token in JSON">>)

UndefinedSectionError ==
    Err("TypeError", <<"Cannot read properties of undefined">>)

InvalidAssertionError == Err("InvalidAssertion", <<"SAML Assertion signature check failed">>)

MissingSessionIndexError == Err("MissingSessionIndex", <<"SessionIndex not an attribute of AuthnStatement">>)

DeflateError == Err("ZlibError", <<"deflate failed">>)

(* ------------------------- values and inputs --------------------------- *)

\* JavaScript values whose kind the code tests (Array.isArray).
Str(v) == [t |-> "string", v |-> v]

Arr(v) == [t |-> "array", v |-> v]

Range(seq) == {seq[i] : i \in DOMAIN seq}

\* Content of the credential files of the deployment.
FileContent(file) ==
    CASE file = "sp/cert.cer" -> "SP-CERT-PEM"
      [] file = "sp/key.pem" -> "SP-KEY-PEM"
      [] file = "idps/okta/cert.cer" -> "OKTA-CERT-PEM"
      [] OTHER -> ""

CredentialFiles == {"sp/cert.cer", "sp/key.pem", "idps/okta/cert.cer"}

\* What fs.readFile hands to its callback: the content, or an error.
Readable(file) == [ok |-> TRUE, data |-> FileContent(file), error |-> Err("", <<>>)]

Unreadable(error) == [ok |-> FALSE, data |-> "", error |-> error]

AllReadable == [f \in CredentialFiles |-> Readable(f)]

\* The states of the credential files the model starts from: every file
\* readable, or one of them missing or protected. The files do not change
\* while the server runs.
FileStates ==
    {AllReadable}
        \cup {[AllReadable EXCEPT !["sp/cert.cer"] = Unreadable(e)] : e \in FsErrors}
        \cup {[AllReadable EXCEPT !["sp/key.pem"] =
                  Unreadable(Err("EACCES", <<"EACCES: permission denied">>))],
              [AllReadable EXCEPT !["idps/okta/cert.cer"] =
                  Unreadable(Err("ENOENT", <<"ENOENT: no such file or directory">>))]}

\* A SAMLResponse as the validation sees it: the certificate that signed it,
\* the subject and the session index ("undefined" when the statement has none).
Assertion(signedBy, nameId, sessionIndex) ==
    [signedBy |-> signedBy, name_id |-> nameId, session_index |-> sessionIndex]

NoAssertion == Assertion("none", "none", "none")

GoodAssertion == Assertion("OKTA-CERT-PEM", "alice@example.com", "s1")

Assertions ==
    {GoodAssertion,
     Assertion("OKTA-CERT-PEM", "alice@example.com", "s2"),
     Assertion("ROGUE-CERT-PEM", "alice@example.com", "s1"),
     Assertion("OKTA-CERT-PEM", "alice@example.com", "undefined")}

Query(appName, relayState) == [appName |-> appName, RelayState |-> relayState]

Body(relayState, samlResponse) ==
    [RelayState |-> relayState, SAMLResponse |-> samlResponse]

\* The x-api-key header of a request, "undefined" when the request has none.
Headers(apiKey) == [x_api_key |-> apiKey]

NoHeaders == Headers("undefined")

NoQuery == Query("", NoText)

NoBody == Body(NoText, NoAssertion)

\* The request descriptors the model feeds to each route.
CookieInputs ==
    {[query |-> Query(a, NoText), body |-> NoBody] : a \in {"", "acme", "kanji"}}

MetadataInputs == {[query |-> NoQuery, body |-> NoBody]}

SsoInputs == {[query |-> Query("", rs), body |-> NoBody] : rs \in RelayStateTexts}

SsoRouteInputs == {[query |-> Query("", RelayStateAcme), body |-> NoBody]}

AcsInputs ==
    {[query |-> NoQuery, body |-> Body(RelayStateAcme, a)] : a \in Assertions}
        \cup {[query |-> NoQuery, body |-> Body(RelayStatePortal, GoodAssertion)]}

NoRelayState ==
    [ok |-> FALSE, origin |-> "undefined", appName |-> "undefined", idpName |-> "undefined"]

NoCookieOptions ==
    [secure |-> FALSE, domain |-> "", path |-> "", sameSite |-> "", maxAge |-> 0]

NoAuthData ==
    [kind |-> "none", name_id |-> "", session_index |-> "", auth_time |-> 0,
     relay_state |-> NoRelayState, cookie_options |-> NoCookieOptions]

NoIdp == [sso_login_url |-> Str(""), sso_logout_url |-> Str(""), certificates |-> Arr(<<>>)]

(* ------------------------------- state --------------------------------- *)

VARIABLES
    settings,    \* ServerBase.settings: the configuration, fixed at start
    files,       \* the credential files: what a read of each hands back
    reqs,        \* the HTTP requests handled so far, in arrival order
    units,       \* the worker threads created so far, in creation order
    served,      \* per worker: the requests whose descriptor it was given
    outbox,      \* per worker: events emitted and not yet delivered to the parent
    listeners,   \* per worker: which once-listeners of the parent are still armed
    calls,       \* per request: the outcomes the front end acted on, in order
    responses,   \* per request: the HTTP responses sent, in order
    table,       \* the rows of auth_sessions
    lastStore,   \* per subject: the row of the last merge statement executed
    crashed,     \* the front-end process died of an uncaught exception
    env,         \* process.env.MIDDLEWARE_API_KEY, "undefined" when not set
    mounted,     \* the routers mounted on the Express application, in order
    registered,  \* the calls of registerService that returned, in order
    descriptor,  \* an options object handed to readFile, as the loads left it
    loads        \* the calls of readFile on it that have settled, in order

vars ==
    <<settings, files, reqs, units, served, outbox, listeners, calls, responses,
      table, lastStore, crashed, env, mounted, registered, descriptor, loads>>

(* ----------------------- the worker: helpers --------------------------- *)

NoError == Err("", <<>>)

\* A faulty variant of ReadFile: the error of the file system is passed on
\* whatever the debug flag.
ReadFileLeaking(obj, property, res, debug) ==
    IF ~res.ok
    THEN [ok |-> FALSE, obj |-> obj, error |-> res.error]
    ELSE IF property \notin DOMAIN obj
    THEN [ok |-> FALSE, obj |-> obj, error |-> InvalidPropertyError]
    ELSE [ok |-> TRUE,
          obj |-> [obj EXCEPT ![property] =
                      IF @.t = "array" THEN Arr(<<res.data>>) ELSE Str(res.data)],
          error |-> NoError]

\* A faulty variant of ReadFile: the content is added to the list a list-valued
\* property holds.
ReadFileAppending(obj, property, res, debug) ==
    IF ~res.ok
    THEN [ok |-> FALSE, obj |-> obj,
          error |-> IF ~debug THEN CredentialUnreadableError ELSE res.error]
    ELSE IF property \notin DOMAIN obj
    THEN [ok |-> FALSE, obj |-> obj, error |-> InvalidPropertyError]
    ELSE [ok |-> TRUE,
          obj |-> [obj EXCEPT ![property] =
                      IF @.t = "array" THEN Arr(Append(@.v, res.data)) ELSE Str(res.data)],
          error |-> NoError]

\* SamlWorker.readFile, from the moment fs.readFile calls back with res:
\* the promise settles with the descriptor updated, or with an error.
ReadFile(obj, property, res, debug) ==
    IF ~res.ok
    THEN [ok |-> FALSE, obj |-> obj,
          error |-> IF ~debug THEN CredentialUnreadableError ELSE res.error]
    ELSE IF property \notin DOMAIN obj
    THEN [ok |-> FALSE, obj |-> obj, error |-> InvalidPropertyError]
    ELSE [ok |-> TRUE,
          obj |-> [obj EXCEPT ![property] =
                      IF @.t = "array" THEN Arr(<<res.data>>) ELSE Str(res.data)],
          error |-> NoError]

\* The options object getServiceProvider starts from.
ServiceProviderOptions ==
    [entity_id |-> Str("SPEntityID"), private_key |-> Str(""), certificate |-> Str("")]

\* A faulty variant of GetServiceProvider: the key is read whatever the read of
\* the certificate gave, and the outcome is that of the read of the key.
GetServiceProviderReadingBoth(cert, key, debug) ==
    LET first == ReadFile(ServiceProviderOptions, "certificate", cert, debug)
        second == ReadFile(first.obj, "private_key", key, debug)
    IN [ok |-> second.ok, obj |-> second.obj, error |-> second.error,
        reads |-> <<"sp/cert.cer", "sp/key.pem">>]

\* SamlWorker.getServiceProvider, given what the reads of the certificate and
\* of the key hand back: the key is read only after the certificate was.
GetServiceProvider(cert, key, debug) ==
    LET first == ReadFile(ServiceProviderOptions, "certificate", cert, debug)
        second == ReadFile(first.obj, "private_key", key, debug)
    IN IF ~first.ok
       THEN [ok |-> FALSE, obj |-> first.obj, error |-> first.error,
             reads |-> <<"sp/cert.cer">>]
       ELSE [ok |-> second.ok, obj |-> second.obj, error |-> second.error,
             reads |-> <<"sp/cert.cer", "sp/key.pem">>]

\* path.join('.', 'idps', idpName, 'cert.cer') for the configured provider.
IdpCertFile(idpName) == "idps/okta/cert.cer"

\* The options object getIdentityProvider starts from.
IdentityProviderOptions(idpName) ==
    [sso_login_url |-> Str(IDPLoginEndpointOf(idpName)),
     sso_logout_url |-> Str("undefined"),
     certificates |-> Arr(<<>>)]

\* A faulty variant of MaxAge: CookieTimeout * 60 * 1000, without the fallback.
MaxAgeWithoutFallback(st) == st.CookieTimeout * 60 * 1000

\* (CookieTimeout || 1) * 60 * 1000.
MaxAge(st) ==
    (IF st.CookieTimeout = 0 THEN 1 ELSE st.CookieTimeout) * 60 * 1000

\* A faulty variant of TestCookieOptions: the fallback values, whatever the query.
TestCookieOptionsHardCoded(st, query) ==
    [secure |-> st.CookieSecure, domain |-> ".example.com", path |-> "/",
     sameSite |-> "strict", maxAge |-> 60000]

\* cookie_options of the test endpoint.
TestCookieOptions(st, query) ==
    [secure |-> st.CookieSecure,
     domain |-> IF query.appName # "" THEN CookieDomainOf(query.appName) ELSE ".example.com",
     path |-> IF query.appName # "" THEN CookiePathOf(query.appName) ELSE "/",
     sameSite |-> "strict",
     maxAge |-> MaxAge(st)]

\* cookie_options of the acs endpoint.
AcsCookieOptions(st, relayState) ==
    [secure |-> st.CookieSecure,
     domain |-> CookieDomainOf(relayState.appName),
     path |-> CookiePathOf(relayState.appName),
     sameSite |-> "strict",
     maxAge |-> MaxAge(st)]

\* SAMLAuthData of the test endpoint, created at time t.
TestAuthData(st, query, t) ==
    [kind |-> "authData", name_id |-> TestNameId, session_index |-> "42 is the answer",
     auth_time |-> t, relay_state |-> NoRelayState,
     cookie_options |-> TestCookieOptions(st, query)]

\* A faulty variant of AcsAuthData: the cookie options of one fixed application.
AcsAuthDataForAcme(st, relayState, user, t) ==
    [kind |-> "authData", name_id |-> Sha256Hex(user.name_id),
     session_index |-> user.session_index, auth_time |-> t,
     relay_state |-> relayState,
     cookie_options |-> AcsCookieOptions(st, [relayState EXCEPT !.appName = "acme"])]

\* SAMLAuthData of the acs endpoint for a validated user, created at time t.
AcsAuthData(st, relayState, user, t) ==
    [kind |-> "authData", name_id |-> Sha256Hex(user.name_id),
     session_index |-> user.session_index, auth_time |-> t,
     relay_state |-> relayState,
     cookie_options |-> AcsCookieOptions(st, relayState)]

\* A faulty variant of PostAssertOptions: the session index is not required.
PostAssertOptionsLax(body) ==
    [request_body |-> body, require_session_index |-> FALSE]

\* The options acs passes to post_assert.
PostAssertOptions(body) ==
    [request_body |-> body, require_session_index |-> TRUE]

\* saml2-js post_assert: the verdict handed to the callback for an identity
\* provider and the options; the signature is checked before the statement
\* is read, and a statement without a session index is an error only when
\* the options require one.
PostAssert(idp, options) ==
    LET a == options.request_body.SAMLResponse IN
    IF a.signedBy \notin Range(idp.certificates.v)
    THEN [ok |-> FALSE, error |-> InvalidAssertionError, user |-> NoAssertion]
    ELSE IF options.require_session_index /\ a.session_index = "undefined"
    THEN [ok |-> FALSE, error |-> MissingSessionIndexError, user |-> NoAssertion]
    ELSE [ok |-> TRUE, error |-> NoError, user |-> a]

\* saml2-js create_login_request_url: the login URL for an identity provider,
\* with the relay_state option percent-encoded into the query.
CreateLoginRequestUrl(idp, options) ==
    [kind |-> "loginUrl", base |-> idp.sso_login_url.v,
     SAMLRequest |-> "AuthnRequest", RelayState |-> Escape(options.relay_state)]

\* sp.create_metadata().
CreateMetadata(sp) ==
    [kind |-> "metadata", entity_id |-> sp.entity_id.v, certificate |-> sp.certificate.v]

\* A faulty variant of Merge: a plain insert.
MergeInsertOnly(tbl, row) == tbl \cup {row}

\* A faulty variant of Merge: the two columns of a matched row are updated
\* apart, the timestamp only when it is later than the one the row holds.
MergeColumnsApart(tbl, row) ==
    IF \E x \in tbl : x.name_id = row.name_id
    THEN {IF x.name_id = row.name_id
          THEN [x EXCEPT !.session_index = row.session_index,
                         !.auth_time = IF row.auth_time > @ THEN row.auth_time ELSE @]
          ELSE x : x \in tbl}
    ELSE tbl \cup {row}

\* The merge statement on auth_sessions: update the rows of the subject when
\* there are any, insert otherwise.
Merge(tbl, row) ==
    IF \E x \in tbl : x.name_id = row.name_id
    THEN {IF x.name_id = row.name_id
          THEN [x EXCEPT !.session_index = row.session_index, !.auth_time = row.auth_time]
          ELSE x : x \in tbl}
    ELSE tbl \cup {row}

\* The record of the last statement per subject, after one more statement.
Stored(last, row) ==
    [n \in DOMAIN last \cup {row.name_id} |-> IF n = row.name_id THEN row ELSE last[n]]

\* TYPES.DateTime: a Date, in milliseconds, is sent to the server as a count
\* of three-hundredths of a second, Math.round(milliseconds / (3 + 1/3)).
DateTime(ms) == (3 * ms + 5) \div 10

\* A faulty variant of Row: the timestamp is sent with the resolution of a second.
RowToTheSecond(authData) ==
    [name_id |-> authData.name_id, session_index |-> authData.session_index,
     auth_time |-> 300 * ((authData.auth_time + 500) \div 1000)]

\* The parameters of the merge statement: two NVarChar and one DateTime.
Row(authData) ==
    [name_id |-> authData.name_id, session_index |-> authData.session_index,
     auth_time |-> DateTime(authData.auth_time)]

\* The methods WorkerBase.run finds on a SamlWorker among the endpoint names
\* the services dispatch.
WorkerMethods == {"cookie", "metadata", "sso_redirect", "acs"}

\* The state of a worker thread once SamlWorker.run has returned: the promise
\* of getServiceProvider is pending.
Run(r, workerData) ==
    [req |-> r, workerData |-> workerData, pc |-> "getServiceProvider", live |-> TRUE,
     reads |-> <<>>, stored |-> <<>>,
     sp |-> ServiceProviderOptions, idp |-> NoIdp, relayState |-> NoRelayState,
     authData |-> NoAuthData, conn |-> "none", connects |-> 0, execs |-> 0,
     err |-> NoError]

(* --------------------- the worker: ways a step ends -------------------- *)

\* An exception nobody catches: the thread stops and emits one 'error'.
Throw(u, w, err) ==
    /\ units' = [units EXCEPT ![u] =
                    [w EXCEPT !.pc = "failed", !.live = FALSE, !.err = err]]
    /\ outbox' = [outbox EXCEPT ![u] = Append(@, [type |-> "error", value |-> err])]

\* parentPort.postMessage(value) as the last statement of a callback.
PostMessage(u, w, value) ==
    /\ units' = [units EXCEPT ![u] = [w EXCEPT !.pc = "done"]]
    /\ outbox' = [outbox EXCEPT ![u] = Append(@, [type |-> "message", value |-> value])]

\* The callback returns with an asynchronous operation pending.
Await(u, w, pc) ==
    /\ units' = [units EXCEPT ![u] = [w EXCEPT !.pc = pc]]
    /\ UNCHANGED outbox

(* ---------------------- the worker: its methods ----------------------- *)

\* new Date() in worker u, in milliseconds: the readings of different workers
\* are taken to be distinct and more than a second apart, so that a timestamp
\* identifies the record that carries it; the first falls on a whole
\* three-hundredth of a second and the later ones do not.
Now(u) == 1000 * u + 7 * (u - 1)

\* SamlWorker.storeAuthData up to connection.connect().
StoreAuthData(u, w, authData) ==
    Await(u, [w EXCEPT !.authData = authData, !.conn = "connecting",
                       !.connects = @ + 1], "dbConnect")

\* SamlWorker.cookie.
Cookie(u, w) ==
    LET query == w.workerData.query IN
    IF query.appName # "" /\ ~HasSection(query.appName)
    THEN Throw(u, w, UndefinedSectionError)
    ELSE StoreAuthData(u, w, TestAuthData(settings, query, Now(u)))

\* A faulty variant of Metadata: the document is posted twice.
MetadataPostingTwice(u, w) ==
    /\ units' = [units EXCEPT ![u] = [w EXCEPT !.pc = "done"]]
    /\ outbox' = [outbox EXCEPT ![u] =
                     @ \o <<[type |-> "message", value |-> CreateMetadata(w.sp)],
                            [type |-> "message", value |-> CreateMetadata(w.sp)]>>]

\* SamlWorker.metadata.
Metadata(u, w) ==
    PostMessage(u, w, CreateMetadata(w.sp))

\* SamlWorker.getIdentityProvider up to the pending read of the certificate.
GetIdentityProvider(u, w, idpName) ==
    IF ~HasSection(idpName)
    THEN Throw(u, w, UndefinedSectionError)
    ELSE Await(u, [w EXCEPT !.idp = IdentityProviderOptions(idpName)], "readIdpCert")

\* SamlWorker.sso_redirect up to the pending read of the certificate.
SsoRedirect(u, w) ==
    LET RelayState == JSONParse(w.workerData.query.RelayState) IN
    IF ~RelayState.ok
    THEN Throw(u, w, JsonSyntaxError)
    ELSE GetIdentityProvider(u, [w EXCEPT !.relayState = RelayState], RelayState.idpName)

\* SamlWorker.acs up to the pending read of the certificate.
Acs(u, w) ==
    LET relayState == JSONParse(w.workerData.body.RelayState) IN
    IF ~relayState.ok
    THEN Throw(u, w, JsonSyntaxError)
    ELSE GetIdentityProvider(u, [w EXCEPT !.relayState = relayState], relayState.idpName)

\* A faulty variant of WorkerBaseRun: an unknown name falls back to the metadata method.
WorkerBaseRunWithDefault(u, w) ==
    LET endpoint == w.workerData.endpoint IN
    CASE endpoint = "cookie" -> Cookie(u, w)
      [] endpoint = "sso_redirect" -> SsoRedirect(u, w)
      [] endpoint = "acs" -> Acs(u, w)
      [] OTHER -> Metadata(u, w)

\* WorkerBase.run: call the method named by the endpoint, or throw.
WorkerBaseRun(u, w) ==
    LET endpoint == w.workerData.endpoint IN
    IF endpoint \in WorkerMethods
    THEN CASE endpoint = "cookie" -> Cookie(u, w)
           [] endpoint = "metadata" -> Metadata(u, w)
           [] endpoint = "sso_redirect" -> SsoRedirect(u, w)
           [] endpoint = "acs" -> Acs(u, w)
    ELSE Throw(u, w, UnknownEndpointError(endpoint))

\* A faulty variant of LoginRequestOptions: the parsed RelayState, serialised
\* again with JSON.stringify (the members in the order the text gave them,
\* without white space).
LoginRequestOptionsReserialized(query, RelayState) ==
    LET stringify ==
            IF RelayState.origin = "undefined" /\ RelayState.idpName = "okta"
            THEN SelectSeq(RelayStateReordered, LAMBDA c : c # " ")
            ELSE IF RelayState.origin = "undefined" THEN RelayStateUnknownIdp
            ELSE RelayStateAcme
    IN [relay_state |-> stringify]

\* The options sso_redirect passes to create_login_request_url.
LoginRequestOptions(query, RelayState) ==
    [relay_state |-> query.RelayState]

(* ----------------------- the worker: its steps ------------------------- *)

\* A faulty variant of Pending: the workers run one after the other, a worker
\* continues only when those created before it have ended.
PendingInOrder(u, pc) ==
    /\ u \in DOMAIN units
    /\ ~crashed
    /\ units[u].live
    /\ units[u].pc = pc
    /\ \A v \in 1..(u - 1) : units[v].pc \in {"done", "failed"}

\* The asynchronous operation pc of worker u is pending in a running thread.
Pending(u, pc) ==
    /\ u \in DOMAIN units
    /\ ~crashed
    /\ units[u].live
    /\ units[u].pc = pc

\* The promise of getServiceProvider settles, after one or two reads; on
\* success SamlWorker.run creates the service provider and calls
\* WorkerBase.run.
OnServiceProviderOptions(u) ==
    /\ Pending(u, "getServiceProvider")
    /\ LET w == units[u]
           r == GetServiceProvider(files["sp/cert.cer"], files["sp/key.pem"],
                                   w.workerData.debug)
           read == [w EXCEPT !.sp = r.obj, !.reads = r.reads]
       IN IF r.ok THEN WorkerBaseRun(u, read) ELSE Throw(u, read, r.error)
    /\ UNCHANGED <<descriptor, loads, env, mounted, registered, settings, files, reqs, served, listeners, calls, responses, table,
                   lastStore, crashed>>

\* The read of the identity provider certificate calls back
\* (getIdentityProvider); on success onIdentityProviderOptions starts the
\* library call of the endpoint.
ReadIdpCertDone(u) ==
    /\ Pending(u, "readIdpCert")
    /\ LET w == units[u]
           file == IdpCertFile(w.relayState.idpName)
           r == ReadFile(w.idp, "certificates", files[file], w.workerData.debug)
           read == [w EXCEPT !.idp = r.obj, !.reads = Append(@, file)]
       IN IF r.ok
          THEN Await(u, read, IF w.workerData.endpoint = "acs" THEN "postAssert"
                                                               ELSE "loginRequest")
          ELSE Throw(u, read, r.error)
    /\ UNCHANGED <<descriptor, loads, env, mounted, registered, settings, files, reqs, served, listeners, calls, responses,
                   table, lastStore, crashed>>

\* A faulty variant of OnLoginRequest: the login that was started is noted in the
\* table until its assertion arrives.
OnLoginRequestRemembering(u) ==
    /\ Pending(u, "loginRequest")
    /\ \E error \in {NoError, DeflateError} :
         LET w == units[u]
             options == LoginRequestOptions(w.workerData.query, w.relayState)
         IN IF error # NoError
            THEN Throw(u, w, error) /\ UNCHANGED table
            ELSE /\ PostMessage(u, w, CreateLoginRequestUrl(w.idp, options))
                 /\ table' = table \cup {[name_id |-> "pending", session_index |-> "",
                                           auth_time |-> Now(u)]}
    /\ UNCHANGED <<descriptor, loads, env, mounted, registered, settings, files, reqs, served, listeners, calls, responses,
                   lastStore, crashed>>

\* onLoginRequest: create_login_request_url calls back.
OnLoginRequest(u) ==
    /\ Pending(u, "loginRequest")
    /\ \E error \in {NoError, DeflateError} :
         LET w == units[u]
             options == LoginRequestOptions(w.workerData.query, w.relayState)
         IN IF error # NoError
            THEN Throw(u, w, error)
            ELSE PostMessage(u, w, CreateLoginRequestUrl(w.idp, options))
    /\ UNCHANGED <<descriptor, loads, env, mounted, registered, settings, files, reqs, served, listeners, calls, responses,
                   table, lastStore, crashed>>

\* A faulty variant of OnAssertionValidation: the error of the validation is ignored.
OnAssertionValidationIgnoringError(u) ==
    /\ Pending(u, "postAssert")
    /\ LET w == units[u] IN
       StoreAuthData(u, w, AcsAuthData(settings, w.relayState,
                                       w.workerData.body.SAMLResponse, Now(u)))
    /\ UNCHANGED <<descriptor, loads, env, mounted, registered, settings, files, reqs, served, listeners, calls, responses, table,
                   lastStore, crashed>>

\* onAssertionValidation: post_assert calls back.
OnAssertionValidation(u) ==
    /\ Pending(u, "postAssert")
    /\ LET w == units[u]
           v == PostAssert(w.idp, PostAssertOptions(w.workerData.body))
       IN IF ~v.ok
          THEN Throw(u, w, v.error)
          ELSE IF ~HasSection(w.relayState.appName)
          THEN Throw(u, w, UndefinedSectionError)
          ELSE StoreAuthData(u, w, AcsAuthData(settings, w.relayState, v.user, Now(u)))
    /\ UNCHANGED <<descriptor, loads, env, mounted, registered, settings, files, reqs, served, listeners, calls, responses, table,
                   lastStore, crashed>>

\* A faulty variant of OnConnect: a failed attempt is repeated once.
OnConnectRetrying(u) ==
    /\ Pending(u, "dbConnect")
    /\ \E error \in {NoError, DbConnectError} :
         LET w == units[u] IN
         IF error # NoError
         THEN IF w.connects < 2
              THEN Await(u, [w EXCEPT !.connects = @ + 1], "dbConnect")
              ELSE Throw(u, [w EXCEPT !.conn = "failed"],
                         IF w.workerData.debug THEN error ELSE CannotConnectError)
         ELSE Await(u, [w EXCEPT !.conn = "open", !.execs = @ + 1], "dbExec")
    /\ UNCHANGED <<descriptor, loads, env, mounted, registered, settings, files, reqs, served, listeners, calls, responses,
                   table, lastStore, crashed>>

\* onConnect: the connection attempt ends.
OnConnect(u) ==
    /\ Pending(u, "dbConnect")
    /\ \E error \in {NoError, DbConnectError} :
         LET w == units[u] IN
         IF error # NoError
         THEN Throw(u, [w EXCEPT !.conn = "failed"],
                    IF w.workerData.debug THEN error ELSE CannotConnectError)
         ELSE Await(u, [w EXCEPT !.conn = "open", !.execs = @ + 1], "dbExec")
    /\ UNCHANGED <<descriptor, loads, env, mounted, registered, settings, files, reqs, served, listeners, calls, responses,
                   table, lastStore, crashed>>

\* A faulty variant of OnExecSQL: the record is posted before the error is looked at.
OnExecSQLPostingFirst(u) ==
    /\ Pending(u, "dbExec")
    /\ \E error \in {NoError, DbRequestError} :
         LET w == units[u]
             closed == [w EXCEPT !.conn = "closed"]
             message == [type |-> "message", value |-> w.authData]
         IN IF error # NoError
            THEN /\ units' = [units EXCEPT ![u] =
                                [closed EXCEPT !.pc = "failed", !.live = FALSE,
                                               !.err = CannotExecuteError]]
                 /\ outbox' = [outbox EXCEPT ![u] =
                                 @ \o <<message, [type |-> "error",
                                                  value |-> CannotExecuteError]>>]
                 /\ UNCHANGED <<table, lastStore>>
            ELSE /\ table' = Merge(table, Row(w.authData))
                 /\ lastStore' = Stored(lastStore, Row(w.authData))
                 /\ PostMessage(u, [closed EXCEPT !.stored = <<Row(w.authData)>>],
                                w.authData)
    /\ UNCHANGED <<descriptor, loads, env, mounted, registered, settings, files, reqs, served, listeners, calls, responses,
                   crashed>>

\* A faulty variant of OnExecSQL: the connection is closed on success only.
OnExecSQLClosingOnSuccess(u) ==
    /\ Pending(u, "dbExec")
    /\ \E error \in {NoError, DbRequestError} :
         LET w == units[u]
             closed == [w EXCEPT !.conn = "closed"]
         IN IF error # NoError
            THEN /\ Throw(u, w, IF w.workerData.debug THEN error ELSE CannotExecuteError)
                 /\ UNCHANGED <<table, lastStore>>
            ELSE /\ table' = Merge(table, Row(w.authData))
                 /\ lastStore' = Stored(lastStore, Row(w.authData))
                 /\ PostMessage(u, [closed EXCEPT !.stored = <<Row(w.authData)>>],
                                w.authData)
    /\ UNCHANGED <<descriptor, loads, env, mounted, registered, settings, files, reqs, served, listeners, calls, responses,
                   crashed>>

\* The statement runs on the server and onExecSQL is called with its result.
OnExecSQL(u) ==
    /\ Pending(u, "dbExec")
    /\ \E error \in {NoError, DbRequestError} :
         LET w == units[u]
             closed == [w EXCEPT !.conn = "closed"]
         IN IF error # NoError
            THEN /\ Throw(u, closed,
                          IF w.workerData.debug THEN error ELSE CannotExecuteError)
                 /\ UNCHANGED <<table, lastStore>>
            ELSE /\ table' = Merge(table, Row(w.authData))
                 /\ lastStore' = Stored(lastStore, Row(w.authData))
                 /\ PostMessage(u, [closed EXCEPT !.stored = <<Row(w.authData)>>],
                                w.authData)
    /\ UNCHANGED <<descriptor, loads, env, mounted, registered, settings, files, reqs, served, listeners, calls, responses,
                   crashed>>

(* ------------------ the front end: reply callbacks --------------------- *)

Response(status, contentType, body, cookies, location) ==
    [status |-> status, contentType |-> contentType, body |-> body,
     cookies |-> cookies, location |-> location]

NoLocation == [kind |-> "none"]

Url(href) == [kind |-> "url", href |-> href]

\* res.cookie(name, JSON.stringify(value), options): the Set-Cookie it adds.
SetCookie(name, value) ==
    [name |-> name, value |-> [json |-> value], options |-> value.cookie_options]

\* res.cookie throws a TypeError when the domain has a character outside
\* Latin-1 (cookie.serialize: 'option domain is invalid').
CookieThrows(value) == value.cookie_options.domain = CookieDomainOf("kanji")

Threw == [threw |-> TRUE, response |-> Response(0, "", [text |-> <<>>], <<>>, NoLocation)]

Sent(response) == [threw |-> FALSE, response |-> response]

\* cookieCallback of SAMLService.init.
CookieCallback(req, value) ==
    IF CookieThrows(value) THEN Threw
    ELSE Sent(Response(200, "text/html",
              [text |-> <<Title, ": cookie has been successfully sent and is available at application URL.">>],
              <<SetCookie("SAML_Test_Session", value)>>, NoLocation))

\* metadataCallback of SAMLService.init.
MetadataCallback(req, value) ==
    Sent(Response(200, "text/xml", [xml |-> value], <<>>, NoLocation))

\* ssoRedirectCallback of SAMLService.init.
SsoRedirectCallback(req, value) ==
    Sent(Response(302, "text/plain", [text |-> <<>>], <<>>, value))

\* A faulty variant of AcsCallback: the redirect always goes to '/'.
AcsCallbackToRoot(req, value) ==
    LET relayState == JSONParse(req.body.RelayState) IN
    IF ~relayState.ok \/ CookieThrows(value) \/ ~HasSection(relayState.appName)
    THEN Threw
    ELSE Sent(Response(302, "text/plain", [text |-> <<>>],
              <<SetCookie("SAML_Login_Session", value)>>, Url("/")))

\* acsCallback of SAMLService.init.
AcsCallback(req, value) ==
    LET relayState == JSONParse(req.body.RelayState) IN
    IF ~relayState.ok \/ CookieThrows(value) \/ ~HasSection(relayState.appName)
    THEN Threw
    ELSE Sent(Response(302, "text/plain", [text |-> <<>>],
              <<SetCookie("SAML_Login_Session", value)>>,
              Url(IF LocalClientUrlOf(relayState.appName) # ""
                  THEN LocalClientUrlOf(relayState.appName) ELSE "/")))

Callback(name, req, value) ==
    CASE name = "cookieCallback" -> CookieCallback(req, value)
      [] name = "metadataCallback" -> MetadataCallback(req, value)
      [] name = "ssoRedirectCallback" -> SsoRedirectCallback(req, value)
      [] name = "acsCallback" -> AcsCallback(req, value)

\* The status raiseHTTPError uses when the caller passes none.
DefaultErrorNumber == 500

\* A faulty variant of RaiseHTTPError: the message alone, under the default status.
RaiseHTTPErrorBare(error, errorNumber) ==
    Response(DefaultErrorNumber, "text/html", [text |-> error.message], <<>>, NoLocation)

\* ServiceBase.raiseHTTPError: the response it sends.
RaiseHTTPError(error, errorNumber) ==
    Response(errorNumber, "text/html", [text |-> <<Title, ": ">> \o error.message],
             <<>>, NoLocation)

(* ---------------------- the front end: dispatch ------------------------ *)

\* The routes SAMLService.init registers: path, worker endpoint, callback.
Route(path, endpoint, callback) ==
    [path |-> path, endpoint |-> endpoint, callback |-> callback]

Routes ==
    {Route("/cookie", "cookie", "cookieCallback"),
     Route("/metadata", "metadata", "metadataCallback"),
     Route("/sso-redirect", "spinitsso_redirect", "ssoRedirectCallback"),
     Route("/acs", "acs", "acsCallback")}

InputsOf(path) ==
    CASE path = "/cookie" -> CookieInputs
      [] path = "/metadata" -> MetadataInputs
      [] path = "/sso-redirect" -> SsoRouteInputs
      [] path = "/acs" -> AcsInputs

\* new Worker('./' + service.workerFile, ...): worker_saml.js runs
\* SamlWorker.run; worker_ai.js is not part of the published source, and a
\* worker made from it is followed no further than its creation.
NewWorker(r, workerData) ==
    IF workerData.name = ServiceName THEN Run(r, workerData)
    ELSE [Run(r, workerData) EXCEPT !.pc = "worker_ai"]

\* A faulty variant of Terminate: the listener forgets w.terminate().
TerminateSkipped(w) == w

\* w.terminate().
Terminate(w) == [w EXCEPT !.live = FALSE]

\* A faulty variant of Handler: a worker that exists already is given the new request
\* instead of creating one.
HandlerReusingWorker(service, endpoint, callback, req) ==
    /\ ~crashed
    /\ Len(reqs) < MaxRequests
    /\ LET r == Len(reqs) + 1
           workerData == [endpoint |-> endpoint, name |-> service,
                          debug |-> settings.Debug, headers |-> req.headers,
                          query |-> req.query, body |-> req.body]
       IN /\ reqs' = Append(reqs, [service |-> service, path |-> req.path,
                                   headers |-> req.headers, endpoint |-> endpoint,
                                   callback |-> callback, query |-> req.query,
                                   body |-> req.body])
          /\ IF units = <<>>
             THEN /\ units' = Append(units, NewWorker(r, workerData))
                  /\ served' = Append(served, {r})
                  /\ outbox' = Append(outbox, <<>>)
                  /\ listeners' = Append(listeners, [message |-> TRUE, error |-> TRUE])
             ELSE /\ units' = [units EXCEPT ![1] = NewWorker(r, workerData)]
                  /\ served' = [served EXCEPT ![1] = @ \cup {r}]
                  /\ UNCHANGED <<outbox, listeners>>
    /\ calls' = Append(calls, <<>>)
    /\ responses' = Append(responses, <<>>)
    /\ UNCHANGED <<descriptor, loads, env, mounted, registered, settings, files, table, lastStore, crashed>>

\* The handler createRequestHandler(endpoint, callback) returns, run for one
\* request by the service that created it: it creates a worker for the request
\* and arms the two listeners.
Handler(service, endpoint, callback, req) ==
    /\ ~crashed
    /\ Len(reqs) < MaxRequests
    /\ LET r == Len(reqs) + 1
           workerData == [endpoint |-> endpoint, name |-> service,
                          debug |-> settings.Debug, headers |-> req.headers,
                          query |-> req.query, body |-> req.body]
       IN /\ reqs' = Append(reqs, [service |-> service, path |-> req.path,
                                   headers |-> req.headers, endpoint |-> endpoint,
                                   callback |-> callback, query |-> req.query,
                                   body |-> req.body])
          /\ units' = Append(units, NewWorker(r, workerData))
          /\ served' = Append(served, {r})
    /\ outbox' = Append(outbox, <<>>)
    /\ listeners' = Append(listeners, [message |-> TRUE, error |-> TRUE])
    /\ calls' = Append(calls, <<>>)
    /\ responses' = Append(responses, <<>>)
    /\ UNCHANGED <<descriptor, loads, env, mounted, registered, settings, files, table, lastStore, crashed>>

Delivered(u, type) ==
    /\ u \in DOMAIN units
    /\ ~crashed
    /\ outbox[u] # <<>>
    /\ Head(outbox[u]).type = type
    /\ listeners[u][type]

\* The once-listener of 'message': the callback shapes the response and the
\* worker is terminated whether or not the callback throws. An exception of
\* the callback leaves the listener uncaught; whether the process survives
\* it depends on the host's uncaughtException handling.
OnMessage(u) ==
    /\ Delivered(u, "message")
    /\ LET r == units[u].req
           cb == Callback(reqs[r].callback, reqs[r], Head(outbox[u]).value)
       IN /\ calls' = [calls EXCEPT ![r] =
                          Append(@, [outcome |-> "reply", value |-> Head(outbox[u]).value])]
          /\ responses' = [responses EXCEPT ![r] =
                              IF cb.threw THEN @ ELSE Append(@, cb.response)]
          /\ IF cb.threw
             THEN \E dies \in BOOLEAN :
                    /\ crashed' = dies
                    /\ units' = [v \in DOMAIN units |->
                                   IF dies \/ v = u THEN Terminate(units[v])
                                   ELSE units[v]]
             ELSE /\ crashed' = crashed
                  /\ units' = [units EXCEPT ![u] = Terminate(@)]
    /\ outbox' = [outbox EXCEPT ![u] = Tail(@)]
    /\ listeners' = [listeners EXCEPT ![u].message = FALSE]
    /\ UNCHANGED <<descriptor, loads, env, mounted, registered, settings, files, reqs, served, table, lastStore>>

\* An 'error' listener that swallows the error: no raiseHTTPError, no response.
OnErrorSwallowed(u) ==
    /\ Delivered(u, "error")
    /\ outbox' = [outbox EXCEPT ![u] = Tail(@)]
    /\ listeners' = [listeners EXCEPT ![u].error = FALSE]
    /\ UNCHANGED <<descriptor, loads, env, mounted, registered, settings, files, reqs, units, served, calls, responses, table,
                   lastStore, crashed>>

\* A faulty variant of OnError: the failure of one worker cancels the workers
\* that are still running.
OnErrorCancelling(u) ==
    /\ Delivered(u, "error")
    /\ LET r == units[u].req IN
       /\ calls' = [calls EXCEPT ![r] =
                       Append(@, [outcome |-> "error", value |-> Head(outbox[u]).value])]
       /\ responses' = [responses EXCEPT ![r] =
                           Append(@, RaiseHTTPError(Head(outbox[u]).value, DefaultErrorNumber))]
    /\ units' = [v \in DOMAIN units |-> Terminate(units[v])]
    /\ outbox' = [outbox EXCEPT ![u] = Tail(@)]
    /\ listeners' = [listeners EXCEPT ![u].error = FALSE]
    /\ UNCHANGED <<descriptor, loads, env, mounted, registered, settings, files, reqs, served, table, lastStore, crashed>>

\* The once-listener of 'error': raiseHTTPError with the default status.
OnError(u) ==
    /\ Delivered(u, "error")
    /\ LET r == units[u].req IN
       /\ calls' = [calls EXCEPT ![r] =
                       Append(@, [outcome |-> "error", value |-> Head(outbox[u]).value])]
       /\ responses' = [responses EXCEPT ![r] =
                           Append(@, RaiseHTTPError(Head(outbox[u]).value, DefaultErrorNumber))]
    /\ outbox' = [outbox EXCEPT ![u] = Tail(@)]
    /\ listeners' = [listeners EXCEPT ![u].error = FALSE]
    /\ UNCHANGED <<descriptor, loads, env, mounted, registered, settings, files, reqs, units, served, table, lastStore, crashed>>

(* ------------------------ the server: start-up ------------------------- *)

\* ServiceBase.auth as the constructors of the two services set it.
Auth(service) == service = "AI"

TitleOf(service) ==
    IF service = "AI" THEN "AI Integration Service for Enterprise Applications"
    ELSE Title

\* The providers AiService.init accepts.
SupportedServices == {"OpenAI", "Google"}

\* A router: whether router.use(checkAPIKey) precedes its routes, and the
\* routes.
Router(checkAPIKey, routes) == [checkAPIKey |-> checkAPIKey, routes |-> routes]

\* ServiceBase.init: the key check when the service requires authentication,
\* then the health check at '/'.
ServiceBaseInit(service) == Router(Auth(service), {Route("/", "", "checkState")})

\* AiService.init and SAMLService.init: the router as init leaves it, and
\* whether init returned or threw.
ServiceInit(service, st) ==
    LET base == ServiceBaseInit(service) IN
    IF service = "AI"
    THEN IF st.Service \notin SupportedServices
         THEN [ok |-> FALSE, router |-> base]
         ELSE [ok |-> TRUE,
               router |-> [base EXCEPT !.routes = @ \cup
                              {Route("/chat", st.Service, "chatCallback"),
                               Route("/dialogflow", "Dialogflow", "dialogflowCallback")}]]
    ELSE [ok |-> TRUE, router |-> [base EXCEPT !.routes = @ \cup Routes]]

\* app.use(this.path + Service.path, Service.router).
Mount(service, router) == [service |-> service, router |-> router]

Registration(service, outcome) == [service |-> service, outcome |-> outcome]

\* A faulty variant of RegisterService: the router is mounted before init runs.
RegisterServiceMountingFirst(service) ==
    /\ ~crashed
    /\ \A i \in DOMAIN registered : registered[i].service # service
    /\ LET init == ServiceInit(service, settings) IN
       IF service \notin settings.Enabled
       THEN /\ registered' = Append(registered, Registration(service, "disabled"))
            /\ UNCHANGED mounted
       ELSE /\ mounted' = Append(mounted, Mount(service, init.router))
            /\ registered' = Append(registered,
                                Registration(service, IF init.ok THEN "added" ELSE "failed"))
    /\ UNCHANGED <<descriptor, loads, env, settings, files, reqs, units, served, outbox, listeners, calls,
                   responses, table, lastStore, crashed>>

\* ServerBase.registerService, called once for a service: an enabled service
\* is initialised and, when init returns, mounted; an exception of init is
\* caught and logged.
RegisterService(service) ==
    /\ ~crashed
    /\ \A i \in DOMAIN registered : registered[i].service # service
    /\ LET init == ServiceInit(service, settings) IN
       IF service \notin settings.Enabled
       THEN /\ registered' = Append(registered, Registration(service, "disabled"))
            /\ UNCHANGED mounted
       ELSE IF init.ok
       THEN /\ mounted' = Append(mounted, Mount(service, init.router))
            /\ registered' = Append(registered, Registration(service, "added"))
       ELSE /\ registered' = Append(registered, Registration(service, "failed"))
            /\ UNCHANGED mounted
    /\ UNCHANGED <<descriptor, loads, env, settings, files, reqs, units, served, outbox, listeners, calls,
                   responses, table, lastStore, crashed>>

(* ---------------------- the server: one request ------------------------ *)

\* The condition of checkAPIKey under which it calls next().
CheckAPIKey(headers, key) == headers.x_api_key = key

\* The response of checkAPIKey otherwise: raiseHTTPError with a string and 403.
Forbidden(service) ==
    Response(403, "text/html",
             [text |-> <<TitleOf(service), ": ", "Forbidden: Invalid Middleware API Key">>],
             <<>>, NoLocation)

\* checkState of ServiceBase.init.
CheckState(service) ==
    Response(200, "text/html", [text |-> <<TitleOf(service), ": the service is active.">>],
             <<>>, NoLocation)

\* The answer of Express when no mounted router has a route for the request.
NotFound == Response(404, "text/html", [text |-> <<"Cannot ">>], <<>>, NoLocation)

\* A request answered in the main thread, without a worker.
Answer(service, req, response) ==
    /\ ~crashed
    /\ Len(reqs) < MaxRequests
    /\ reqs' = Append(reqs, [service |-> service, path |-> req.path,
                             headers |-> req.headers, endpoint |-> "", callback |-> "",
                             query |-> req.query, body |-> req.body])
    /\ calls' = Append(calls, <<>>)
    /\ responses' = Append(responses, <<response>>)
    /\ UNCHANGED <<descriptor, loads, env, mounted, registered, settings, files, units, served, outbox,
                   listeners, table, lastStore, crashed>>

\* The application handles a request addressed to the path of a service: the
\* router mounted there runs the key check, if it has one, and then the route.
AppHandle(service, req) ==
    LET mounts == {i \in DOMAIN mounted : mounted[i].service = service} IN
    IF mounts = {} THEN Answer(service, req, NotFound)
    ELSE LET router == mounted[CHOOSE i \in mounts : TRUE].router
             matching == {rt \in router.routes : rt.path = req.path}
         IN IF router.checkAPIKey /\ ~CheckAPIKey(req.headers, env)
            THEN Answer(service, req, Forbidden(service))
            ELSE IF matching = {} THEN Answer(service, req, NotFound)
            ELSE LET rt == CHOOSE x \in matching : TRUE IN
                 IF rt.callback = "checkState"
                 THEN Answer(service, req, CheckState(service))
                 ELSE Handler(service, rt.endpoint, rt.callback, req)

\* The requests sent to the AI service: its three routes, without a key, with
\* the key of the deployment and with another one.
ApiKey == "k-2f6c"

AiRequests ==
    {[path |-> p, headers |-> Headers(k), query |-> NoQuery, body |-> NoBody] :
        p \in {"/", "/chat", "/dialogflow"}, k \in {"undefined", ApiKey, "k-0000"}}

\* The health check of the SAML service.
SamlRequests ==
    {[path |-> "/", headers |-> NoHeaders, query |-> NoQuery, body |-> NoBody]}

RequestsTo(service) == IF service = "AI" THEN AiRequests ELSE SamlRequests

(* --------------------------- specifications ---------------------------- *)

\* The state the requests of the SAML service start from: SAMLService has
\* been registered, its section being enabled.
Init ==
    /\ settings \in SettingsSet
    /\ files \in FileStates
    /\ env = "undefined"
    /\ mounted = <<Mount(ServiceName, ServiceInit(ServiceName, settings).router)>>
    /\ registered = <<Registration(ServiceName, "added")>>
    /\ descriptor = ServiceProviderOptions
    /\ loads = <<>>
    /\ reqs = <<>>
    /\ units = <<>>
    /\ served = <<>>
    /\ outbox = <<>>
    /\ listeners = <<>>
    /\ calls = <<>>
    /\ responses = <<>>
    /\ table = {}
    /\ lastStore = <<>>
    /\ crashed = FALSE

\* The server once constructed: nothing is registered yet.
InitServer ==
    /\ settings \in ServerSettingsSet
    /\ files = AllReadable
    /\ env \in {"undefined", ApiKey}
    /\ mounted = <<>>
    /\ registered = <<>>
    /\ descriptor = ServiceProviderOptions
    /\ loads = <<>>
    /\ reqs = <<>>
    /\ units = <<>>
    /\ served = <<>>
    /\ outbox = <<>>
    /\ listeners = <<>>
    /\ calls = <<>>
    /\ responses = <<>>
    /\ table = {}
    /\ lastStore = <<>>
    /\ crashed = FALSE

\* The start-up of the server and the requests the application routes.
NextServer ==
    \/ \E service \in ServiceNames : RegisterService(service)
    \/ \E service \in ServiceNames : \E req \in RequestsTo(service) :
         AppHandle(service, req)

SpecServer == InitServer /\ [][NextServer]_vars


\* The service as deployed: requests arrive on the registered routes.
Next ==
    \/ \E rt \in Routes : \E in \in InputsOf(rt.path) :
         Handler(ServiceName, rt.endpoint, rt.callback,
                 [path |-> rt.path, headers |-> NoHeaders, query |-> in.query,
                  body |-> in.body])
    \/ \E u \in 1..MaxRequests : OnServiceProviderOptions(u)
    \/ \E u \in 1..MaxRequests : ReadIdpCertDone(u)
    \/ \E u \in 1..MaxRequests : OnAssertionValidation(u)
    \/ \E u \in 1..MaxRequests : OnConnect(u)
    \/ \E u \in 1..MaxRequests : OnExecSQL(u)
    \/ \E u \in 1..MaxRequests : OnMessage(u)
    \/ \E u \in 1..MaxRequests : OnError(u)

Spec == Init /\ [][Next]_vars

\* The worker started with workerData.endpoint = 'sso_redirect', the name of
\* the method, behind a handler with the redirect callback.
NextUnit ==
    \/ \E in \in SsoInputs :
         Handler(ServiceName, "sso_redirect", "ssoRedirectCallback",
                 [path |-> "/sso-redirect", headers |-> NoHeaders, query |-> in.query,
                  body |-> in.body])
    \/ \E u \in 1..MaxRequests : OnServiceProviderOptions(u)
    \/ \E u \in 1..MaxRequests : ReadIdpCertDone(u)
    \/ \E u \in 1..MaxRequests : OnLoginRequest(u)
    \/ \E u \in 1..MaxRequests : OnMessage(u)
    \/ \E u \in 1..MaxRequests : OnError(u)

SpecUnit == Init /\ [][NextUnit]_vars

\* The login flow with every worker started under the name of its method:
\* metadata, the redirect to the identity provider and the consumption of
\* the assertion.
NextFlow ==
    \/ \E in \in MetadataInputs :
         Handler(ServiceName, "metadata", "metadataCallback",
                 [path |-> "/metadata", headers |-> NoHeaders, query |-> in.query,
                  body |-> in.body])
    \/ \E in \in SsoRouteInputs :
         Handler(ServiceName, "sso_redirect", "ssoRedirectCallback",
                 [path |-> "/sso-redirect", headers |-> NoHeaders, query |-> in.query,
                  body |-> in.body])
    \/ \E in \in AcsInputs :
         Handler(ServiceName, "acs", "acsCallback",
                 [path |-> "/acs", headers |-> NoHeaders, query |-> in.query,
                  body |-> in.body])
    \/ \E u \in 1..MaxRequests : OnServiceProviderOptions(u)
    \/ \E u \in 1..MaxRequests : ReadIdpCertDone(u)
    \/ \E u \in 1..MaxRequests : OnLoginRequest(u)
    \/ \E u \in 1..MaxRequests : OnAssertionValidation(u)
    \/ \E u \in 1..MaxRequests : OnConnect(u)
    \/ \E u \in 1..MaxRequests : OnExecSQL(u)
    \/ \E u \in 1..MaxRequests : OnMessage(u)
    \/ \E u \in 1..MaxRequests : OnError(u)

SpecFlow == Init /\ [][NextFlow]_vars

\* The properties readFile is asked to fill: those of the two options
\* objects, and one that neither of them has.
Properties == {"certificate", "private_key", "certificates", "thumbprint"}

\* A call of readFile as it settled: the object before, the property and the
\* file named, and the outcome.
Load(before, property, file, r) ==
    [before |-> before, property |-> property, file |-> file, ok |-> r.ok,
     error |-> r.error, after |-> r.obj]

\* One call of readFile on the options object settles.
ReadFileDone(property, file) ==
    /\ Len(loads) < MaxLoads
    /\ LET r == ReadFile(descriptor, property, files[file], settings.Debug) IN
       /\ descriptor' = r.obj
       /\ loads' = Append(loads, Load(descriptor, property, file, r))
    /\ UNCHANGED <<env, mounted, registered, settings, files, reqs, units, served,
                   outbox, listeners, calls, responses, table, lastStore, crashed>>

\* The options object of the service provider or of the identity provider,
\* as getServiceProvider and getIdentityProvider create them.
InitLoader ==
    /\ settings \in SettingsSet
    /\ files \in FileStates
    /\ descriptor \in {ServiceProviderOptions, IdentityProviderOptions("okta")}
    /\ loads = <<>>
    /\ env = "undefined"
    /\ mounted = <<>>
    /\ registered = <<>>
    /\ reqs = <<>>
    /\ units = <<>>
    /\ served = <<>>
    /\ outbox = <<>>
    /\ listeners = <<>>
    /\ calls = <<>>
    /\ responses = <<>>
    /\ table = {}
    /\ lastStore = <<>>
    /\ crashed = FALSE

\* readFile applied to an options object, a property and a credential file.
NextLoader ==
    \E property \in Properties : \E file \in CredentialFiles :
        ReadFileDone(property, file)

SpecLoader == InitLoader /\ [][NextLoader]_vars

(* ------------------------------ claims --------------------------------- *)

Units == DOMAIN units

Requests == DOMAIN reqs

\* The events worker u has emitted and the parent has not handled yet.
InFlight(u, type) == \E i \in DOMAIN outbox[u] : outbox[u][i].type = type

Replied(r) == \E i \in DOMAIN calls[r] : calls[r][i].outcome = "reply"

Failed(r) == \E i \in DOMAIN calls[r] : calls[r][i].outcome = "error"

CookiesOf(r) == UNION {Range(responses[r][i].cookies) : i \in DOMAIN responses[r]}

\* C1: a worker that has thrown is stopped, and once the front end has acted
\* on a worker's message or error (the reply callback was called, whether it
\* returned or threw, or raiseHTTPError was called), that worker is no longer
\* live.
C1_TornDownAfterOutcome ==
    \A u \in Units :
        /\ units[u].pc = "failed" => ~units[u].live
        /\ calls[units[u].req] # <<>> => ~units[u].live

\* A reply callback threw, the process survived, and the worker is stopped.
C1_Witness ==
    \E u \in Units :
        /\ Replied(units[u].req)
        /\ responses[units[u].req] = <<>>
        /\ ~crashed
        /\ ~units[u].live

\* C2: for every request the front end acts on one outcome of its worker and
\* no more: one call of the reply callback with the message the worker posted,
\* or one call of raiseHTTPError with the error the worker threw, never both
\* and never one of them twice; a worker whose message or error has been
\* handled has had exactly one call made for it.
C2_ExactlyOneOutcome ==
    \A u \in Units :
        LET c == calls[units[u].req] IN
        /\ Len(c) <= 1
        /\ units[u].pc \in {"done", "failed"} /\ outbox[u] = <<>> => Len(c) = 1
        /\ Len(c) = 1 /\ c[1].outcome = "reply" =>
              /\ units[u].pc = "done"
              /\ c[1].value.kind = "authData" => c[1].value = units[u].authData
        /\ Len(c) = 1 /\ c[1].outcome = "error" =>
              /\ units[u].pc = "failed"
              /\ c[1].value = units[u].err

\* One request was answered through the reply callback and another through
\* raiseHTTPError.
C2_Witness ==
    \E r1, r2 \in Requests :
        /\ Replied(r1) /\ Len(responses[r1]) = 1
        /\ Failed(r2) /\ Len(responses[r2]) = 1

\* C3: each run of a request handler creates one new worker: there are as
\* many workers as requests, every worker was given the descriptor of one
\* request only, its own, and every request has one worker.
C3_OneFreshUnitPerRequest ==
    /\ Len(units) = Len(reqs)
    /\ \A u \in Units :
          /\ served[u] = {units[u].req}
          /\ units[u].workerData.endpoint = reqs[units[u].req].endpoint
          /\ units[u].workerData.query = reqs[units[u].req].query
          /\ units[u].workerData.body = reqs[units[u].req].body
    /\ \A r \in Requests : Cardinality({u \in Units : r \in served[u]}) = 1

\* Two requests are in flight at once, each on its own live worker.
C3_Witness ==
    \E u1, u2 \in Units :
        /\ u1 # u2
        /\ units[u1].live /\ units[u2].live
        /\ units[u1].pc = "dbExec" /\ units[u2].pc = "postAssert"

UnknownEndpoint(u) == units[u].workerData.endpoint \notin WorkerMethods

NothingBeyondCredentials(u) ==
    /\ units[u].pc \in {"getServiceProvider", "failed"}
    /\ units[u].idp = NoIdp
    /\ units[u].relayState = NoRelayState
    /\ units[u].authData = NoAuthData
    /\ units[u].connects = 0
    /\ units[u].stored = <<>>
    /\ ~InFlight(u, "message")
    /\ ~Replied(units[u].req)

\* C4 as claimed: a worker given an unknown endpoint name runs nothing, the
\* loading of credentials included, posts no message, and fails with the
\* unknown endpoint error only.
C4_Original ==
    \A u \in Units :
        UnknownEndpoint(u) =>
            /\ NothingBeyondCredentials(u)
            /\ units[u].sp = ServiceProviderOptions
            /\ units[u].pc = "failed" =>
                  units[u].err = UnknownEndpointError(units[u].workerData.endpoint)

\* C4 as amended: a worker given an unknown endpoint name runs no endpoint
\* method and posts no message; it loads the service provider credentials
\* first, and fails with the unknown endpoint error when both reads succeeded
\* and with the error of the failed read otherwise.
C4_UnknownEndpointAfterCredentials ==
    \A u \in Units :
        UnknownEndpoint(u) =>
            /\ NothingBeyondCredentials(u)
            /\ units[u].pc = "failed" =>
                  /\ units[u].reads # <<>>
                  /\ units[u].err =
                        IF files["sp/cert.cer"].ok /\ files["sp/key.pem"].ok
                        THEN UnknownEndpointError(units[u].workerData.endpoint)
                        ELSE IF units[u].workerData.debug
                        THEN (IF files["sp/cert.cer"].ok THEN files["sp/key.pem"].error
                              ELSE files["sp/cert.cer"].error)
                        ELSE CredentialUnreadableError

\* A request for an unknown endpoint was answered with the unknown endpoint
\* error, after both credentials were read.
C4_Witness ==
    \E u \in Units :
        /\ UnknownEndpoint(u)
        /\ units[u].reads = <<"sp/cert.cer", "sp/key.pem">>
        /\ units[u].err = UnknownEndpointError(units[u].workerData.endpoint)
        /\ Failed(units[u].req)

StoreFailed(u) == units[u].pc = "failed" /\ units[u].connects > 0

\* C5: on POST /acs the worker posts its record, and the front end sets the
\* cookie, only after the merge statement for that very record has succeeded;
\* when the connection or the statement fails no cookie is issued and every
\* response of the request is an HTTP error.
C5_CookieOnlyAfterStore ==
    \A u \in Units :
        LET r == units[u].req IN
        reqs[r].path = "/acs" =>
            /\ InFlight(u, "message") \/ Replied(r) =>
                  units[u].stored = <<Row(units[u].authData)>>
            /\ \A c \in CookiesOf(r) : units[u].stored = <<Row(c.value.json)>>
            /\ StoreFailed(u) =>
                  /\ CookiesOf(r) = {}
                  /\ ~InFlight(u, "message") /\ ~Replied(r)
                  /\ \A i \in DOMAIN responses[r] : responses[r][i].status = 500

\* One login was stored and answered with the session cookie and a redirect,
\* and another one, whose store failed, was answered with an error.
C5_Witness ==
    \E r1, r2 \in Requests :
        /\ reqs[r1].path = "/acs" /\ reqs[r2].path = "/acs"
        /\ \E c \in CookiesOf(r1) : c.name = "SAML_Login_Session"
        /\ responses[r1][1].status = 302
        /\ \E u \in Units : units[u].req = r2 /\ StoreFailed(u) /\ Failed(r2)

\* The validation of the assertion of worker u reports an error.
InvalidAssertion(u) ==
    LET a == units[u].workerData.body.SAMLResponse IN
    \/ a.signedBy # FileContent("idps/okta/cert.cer")
    \/ a.session_index = "undefined"

MessagesOf(u) ==
    Len(SelectSeq(outbox[u], LAMBDA e : e.type = "message"))
        + Len(SelectSeq(calls[units[u].req], LAMBDA c : c.outcome = "reply"))

\* C6: an acs worker whose assertion fails validation never builds a record,
\* never opens a connection, never writes a row and never posts a message; a
\* worker that succeeded built one record, executed one statement for it and
\* posted it once.
C6_OneRecordPerSuccess ==
    \A u \in Units :
        units[u].workerData.endpoint = "acs" =>
            /\ InvalidAssertion(u) =>
                  /\ units[u].authData = NoAuthData
                  /\ units[u].connects = 0 /\ units[u].execs = 0
                  /\ units[u].stored = <<>>
                  /\ MessagesOf(u) = 0
            /\ units[u].pc = "done" =>
                  /\ units[u].authData.kind = "authData"
                  /\ units[u].connects = 1 /\ units[u].execs = 1
                  /\ units[u].stored = <<Row(units[u].authData)>>
                  /\ MessagesOf(u) = 1

\* An assertion signed by a certificate the identity provider does not trust
\* was rejected and answered with an error, while a valid one was stored.
C6_Witness ==
    \E u1, u2 \in Units :
        /\ units[u1].workerData.endpoint = "acs"
        /\ units[u1].workerData.body.SAMLResponse.signedBy = "ROGUE-CERT-PEM"
        /\ units[u1].err = InvalidAssertionError
        /\ Failed(units[u1].req)
        /\ units[u2].workerData.endpoint = "acs"
        /\ units[u2].pc = "done"
        /\ Cardinality(table) = 1

\* C7 as claimed: every subject identifier in the table, in a posted record
\* or in a cookie is the SHA-256 digest of an identifier, never the identifier.
C7_Original ==
    /\ \A row \in table : IsSha256Hex(row.name_id)
    /\ \A r \in Requests : \A c \in CookiesOf(r) : IsSha256Hex(c.value.json.name_id)
    /\ \A u \in Units : \A i \in DOMAIN outbox[u] :
          outbox[u][i].type = "message" /\ outbox[u][i].value.kind = "authData" =>
              IsSha256Hex(outbox[u][i].value.name_id)

\* C8: the table holds at most one row per subject, and the row of a subject
\* is the row of the last merge statement executed for it.
C8_UpsertLaw ==
    /\ \A x, y \in table : x.name_id = y.name_id => x = y
    /\ \A n \in DOMAIN lastStore : lastStore[n] \in table
    /\ \A x \in table : x.name_id \in DOMAIN lastStore

\* The same subject was stored twice, with two session indices, and the table
\* has one row.
C8_Witness ==
    \E u1, u2 \in Units :
        /\ units[u1].stored # <<>> /\ units[u2].stored # <<>>
        /\ units[u1].stored[1].name_id = units[u2].stored[1].name_id
        /\ units[u1].stored[1].session_index # units[u2].stored[1].session_index
        /\ Cardinality(table) = 1

\* C9 as claimed: a request on /sso-redirect whose RelayState names a
\* configured identity provider, with every credential readable, is answered
\* with a redirect to the login URL of that provider.
C9_Original ==
    \A r \in Requests :
        LET RelayState == JSONParse(reqs[r].query.RelayState) IN
        /\ reqs[r].path = "/sso-redirect"
        /\ RelayState.ok /\ RelayState.idpName \in IdpSections
        /\ files = AllReadable
        /\ responses[r] # <<>>
        => /\ responses[r][1].status = 302
           /\ responses[r][1].location.kind = "loginUrl"
           /\ responses[r][1].location.base = IDPLoginEndpointOf(RelayState.idpName)

\* C10: every login URL the sso_redirect method posts, and so every redirect
\* sent for it, targets the login endpoint of the provider the RelayState
\* names, and its RelayState parameter decodes to the text received in the
\* query.
C10_RelayStateRoundTrip ==
    \A u \in Units :
        LET r == units[u].req
            urls == {outbox[u][i].value : i \in {j \in DOMAIN outbox[u] :
                                                   outbox[u][j].type = "message"}}
                    \cup {responses[r][i].location : i \in DOMAIN responses[r]}
        IN \A url \in urls :
              url.kind = "loginUrl" =>
                  /\ url.base = IDPLoginEndpointOf(JSONParse(reqs[r].query.RelayState).idpName)
                  /\ Unescape(url.RelayState) = reqs[r].query.RelayState

\* A redirect was sent for a RelayState whose text is not in the form
\* JSON.stringify gives.
C10_Witness ==
    \E r \in Requests :
        /\ reqs[r].query.RelayState = RelayStateReordered
        /\ responses[r] # <<>>
        /\ responses[r][1].status = 302
        /\ responses[r][1].location.kind = "loginUrl"

\* C11: acs asks for the validation with require_session_index set, and an
\* assertion without a session index never yields a record: nothing is stored
\* or posted, no cookie is issued, every response of the request is an error,
\* and when the assertion reached the validation with a trusted signature the
\* worker failed with the MissingSessionIndex error.
C11_MissingSessionIndexRejected ==
    \A u \in Units :
        LET r == units[u].req
            a == units[u].workerData.body.SAMLResponse
        IN units[u].workerData.endpoint = "acs" /\ a.session_index = "undefined" =>
            /\ units[u].authData = NoAuthData
            /\ units[u].connects = 0 /\ units[u].stored = <<>>
            /\ units[u].pc # "done" /\ MessagesOf(u) = 0
            /\ CookiesOf(r) = {}
            /\ \A i \in DOMAIN responses[r] : responses[r][i].status = 500
            /\ units[u].pc = "failed" /\ units[u].idp.certificates.v = <<a.signedBy>>
                  => units[u].err = MissingSessionIndexError

\* An assertion with a trusted signature and no session index was rejected
\* and its request answered with the error.
C11_Witness ==
    \E u \in Units :
        /\ units[u].workerData.endpoint = "acs"
        /\ units[u].workerData.body.SAMLResponse.session_index = "undefined"
        /\ units[u].err = MissingSessionIndexError
        /\ Failed(units[u].req)
        /\ Len(responses[units[u].req]) = 1
        /\ table = {}

\* C12: a store operation has a connection of its own, opened once, on which
\* at most one statement is executed; a store operation that has ended, with
\* the record posted or with an error, has no open connection: the connection
\* was closed when the statement ended, whatever its result, or it was never
\* established.
C12_ConnectionLifecycle ==
    \A u \in Units :
        /\ units[u].connects <= 1 /\ units[u].execs <= units[u].connects
        /\ units[u].conn = "none" <=> units[u].connects = 0
        /\ units[u].pc \in {"done", "failed"} =>
              units[u].conn \in {"none", "failed", "closed"}
        /\ units[u].pc = "done" /\ units[u].connects = 1 =>
              units[u].conn = "closed" /\ units[u].execs = 1
        /\ StoreFailed(u) => units[u].conn = IF units[u].execs = 1 THEN "closed" ELSE "failed"

\* One store operation ended with its statement executed and another with
\* its statement failed, both with the connection closed.
C12_Witness ==
    \E u1, u2 \in Units :
        /\ units[u1].pc = "done" /\ units[u1].stored # <<>> /\ units[u1].conn = "closed"
        /\ StoreFailed(u2) /\ units[u2].execs = 1 /\ units[u2].conn = "closed"

\* The 'error' events worker u has emitted, handled by the front end or not.
ErrorsOf(u) ==
    Len(SelectSeq(outbox[u], LAMBDA e : e.type = "error"))
        + Len(SelectSeq(calls[units[u].req], LAMBDA c : c.outcome = "error"))

\* C13: no worker makes a second connection attempt or executes a second
\* statement, and a worker whose connection attempt or statement failed has
\* stopped with that failure as its error: it posted no message and the front
\* end is handed one 'error' event, with the error of the failure (the
\* generic one unless debug is set).
C13_StoreFailureNotRetried ==
    \A u \in Units :
        /\ units[u].connects <= 1 /\ units[u].execs <= 1
        /\ StoreFailed(u) =>
              /\ ~units[u].live
              /\ units[u].stored = <<>>
              /\ MessagesOf(u) = 0
              /\ ErrorsOf(u) = 1
              /\ units[u].err =
                    IF units[u].execs = 0
                    THEN (IF units[u].workerData.debug THEN DbConnectError
                                                       ELSE CannotConnectError)
                    ELSE (IF units[u].workerData.debug THEN DbRequestError
                                                       ELSE CannotExecuteError)

\* A connection attempt failed and a statement failed, each reported to the
\* front end, which answered both requests with an error.
C13_Witness ==
    \E u1, u2 \in Units :
        /\ StoreFailed(u1) /\ units[u1].execs = 0 /\ Failed(units[u1].req)
        /\ StoreFailed(u2) /\ units[u2].execs = 1 /\ Failed(units[u2].req)
        /\ table = {}

\* C14: a worker that failed has emitted one 'error' event and no message;
\* the front end answers it with one response, of status 500, whose body is
\* the title of the service, ': ' and the message of the worker's error;
\* raiseHTTPError sends another status only when it is given one.
C14_FailureIsOneHttpError ==
    \A u \in Units :
        LET r == units[u].req IN
        /\ units[u].pc = "failed" =>
              /\ ErrorsOf(u) = 1 /\ MessagesOf(u) = 0
              /\ \A n \in {403, 404, DefaultErrorNumber} :
                    RaiseHTTPError(units[u].err, n).status = n
        /\ Failed(r) =>
              /\ units[u].pc = "failed"
              /\ Len(responses[r]) = 1
              /\ responses[r][1].status = 500
              /\ responses[r][1].body = [text |-> <<Title, ": ">> \o units[u].err.message]
              /\ responses[r][1].cookies = <<>>
              /\ responses[r][1].location = NoLocation

\* A failed validation and a failed endpoint lookup were each answered with
\* status 500 and a body that starts with the title.
C14_Witness ==
    \E u1, u2 \in Units :
        /\ units[u1].err = InvalidAssertionError /\ Failed(units[u1].req)
        /\ UnknownEndpoint(u2) /\ units[u2].pc = "failed"
        /\ Failed(units[u2].req)
        /\ \A r \in {units[u1].req, units[u2].req} :
              /\ responses[r][1].status = 500
              /\ Head(responses[r][1].body.text) = Title

\* The messages the worker substitutes for an error when debug is not set.
GenericErrors == {CredentialUnreadableError, CannotConnectError, CannotExecuteError}

\* C15 as claimed: the body of every error response carries a generic message
\* when debug is not set, whichever step of the worker failed, and the
\* message of the error itself when it is set.
C15_Original ==
    \A u \in Units :
        LET r == units[u].req IN
        Failed(r) =>
            IF settings.Debug
            THEN responses[r][1].body.text = <<Title, ": ">> \o units[u].err.message
            ELSE \E e \in GenericErrors :
                    responses[r][1].body.text = <<Title, ": ">> \o e.message

\* The credential files worker u has read and could not read.
FailedReads(u) == {f \in Range(units[u].reads) : ~files[f].ok}

\* C16: a worker that read a credential file it could not read has failed at
\* that read: it read nothing after it, opened no connection and posted no
\* message; its error is the generic configuration error when debug is not
\* set, whatever the error of the file system was, and the error of the file
\* system when debug is set; the response, when sent, carries that message.
C16_UnreadableCredential ==
    \A u \in Units :
        LET r == units[u].req IN
        \A f \in FailedReads(u) :
            /\ units[u].pc = "failed"
            /\ units[u].reads[Len(units[u].reads)] = f
            /\ units[u].connects = 0
            /\ MessagesOf(u) = 0 /\ ~Replied(r) /\ CookiesOf(r) = {}
            /\ units[u].err = IF settings.Debug THEN files[f].error
                                                ELSE CredentialUnreadableError
            /\ Failed(r) =>
                  /\ responses[r][1].status = 500
                  /\ responses[r][1].body.text =
                        <<Title, ": ">> \o (IF settings.Debug THEN files[f].error.message
                                            ELSE CredentialUnreadableError.message)

\* With debug not set, a metadata request and a login met a missing
\* certificate and were answered with the generic configuration error.
C16_Witness ==
    \E r1, r2 \in Requests :
        /\ ~settings.Debug
        /\ \E f \in CredentialFiles : files[f].error.name = "ENOENT"
        /\ reqs[r1].path = "/metadata" /\ reqs[r2].path = "/acs"
        /\ \A r \in {r1, r2} :
              /\ Failed(r)
              /\ responses[r][1].body.text = <<Title, ": ">> \o CredentialUnreadableError.message

\* The application a request names: the appName of the query for the test
\* endpoint, the appName of the RelayState for acs.
TargetApp(u) ==
    IF units[u].workerData.endpoint = "cookie"
    THEN units[u].workerData.query.appName
    ELSE JSONParse(units[u].workerData.body.RelayState).appName

\* The cookie options of the record of worker u and of the cookies sent for it
\* are those of the configuration for the application app, with maxAge.
OptionsFromConfiguration(u, app, maxAge) ==
    LET options == [secure |-> settings.CookieSecure,
                    domain |-> CookieDomainOf(app), path |-> CookiePathOf(app),
                    sameSite |-> "strict", maxAge |-> maxAge]
    IN /\ units[u].authData.cookie_options = options
       /\ \A c \in CookiesOf(units[u].req) : c.options = options

\* A /cookie request that was answered through its callback got status 200
\* and a body that contains the title.
TestCookieAnswered(u) ==
    LET r == units[u].req IN
    reqs[r].path = "/cookie" /\ Replied(r) /\ responses[r] # <<>> =>
        /\ responses[r][1].status = 200
        /\ Title \in Range(responses[r][1].body.text)

\* C17 as claimed: max-age is CookieTimeout minutes in milliseconds for every
\* configuration.
C17_Original ==
    \A u \in Units :
        /\ units[u].authData.kind = "authData" /\ TargetApp(u) # "" =>
              OptionsFromConfiguration(u, TargetApp(u), settings.CookieTimeout * 60 * 1000)
        /\ TestCookieAnswered(u)

\* C17: for a request that names an application the cookie options of the
\* record are secure = CookieSecure, the domain and path of the application,
\* sameSite strict and, as max-age, CookieTimeout minutes in milliseconds when
\* CookieTimeout is a non-zero number and one minute (60000) when it is unset
\* or zero; CookieTimeout 5 for acme gives domain .acme.test, path / and
\* 300000; an answered /cookie request has status 200 and the title in its
\* body.
C17_CookieOptionsFromConfiguration ==
    \A u \in Units :
        /\ units[u].authData.kind = "authData" /\ TargetApp(u) # "" =>
              /\ OptionsFromConfiguration(u, TargetApp(u),
                     IF settings.CookieTimeout = 0 THEN 60000
                     ELSE settings.CookieTimeout * 60 * 1000)
              /\ settings.CookieTimeout = 5 /\ TargetApp(u) = "acme" =>
                    units[u].authData.cookie_options =
                        [secure |-> TRUE, domain |-> ".acme.test", path |-> "/",
                         sameSite |-> "strict", maxAge |-> 300000]
        /\ TestCookieAnswered(u)

\* GET /cookie?appName=acme under CookieTimeout 5 was answered 200 with a
\* cookie for .acme.test and max-age 300000, and a login to portal got the
\* cookie options of portal.
C17_Witness ==
    \E u1, u2 \in Units :
        /\ settings.CookieTimeout = 5
        /\ reqs[units[u1].req].path = "/cookie" /\ TargetApp(u1) = "acme"
        /\ responses[units[u1].req] # <<>>
        /\ responses[units[u1].req][1].status = 200
        /\ \E c \in CookiesOf(units[u1].req) :
              c.options.domain = ".acme.test" /\ c.options.maxAge = 300000
        /\ reqs[units[u2].req].path = "/acs" /\ TargetApp(u2) = "portal"
        /\ \E c \in CookiesOf(units[u2].req) : c.options.path = "/portal"

\* C18: a POST /acs answered through its callback is answered with one
\* redirect, to the LocalClientUrl of the application the RelayState of the
\* request names, and to '/' when the application has none.
C18_RedirectToLocalClientUrl ==
    \A r \in Requests :
        LET app == JSONParse(reqs[r].body.RelayState).appName IN
        reqs[r].path = "/acs" /\ Replied(r) /\ responses[r] # <<>> =>
            /\ Len(responses[r]) = 1
            /\ responses[r][1].status = 302
            /\ responses[r][1].location.kind = "url"
            /\ app = "acme" => responses[r][1].location.href = "https://acme.test/app"
            /\ LocalClientUrlOf(app) = "" => responses[r][1].location.href = "/"
            /\ LocalClientUrlOf(app) # "" =>
                  responses[r][1].location.href = LocalClientUrlOf(app)

\* A login to acme was redirected to its LocalClientUrl and a login to
\* portal, which has none, to '/'.
C18_Witness ==
    \E r1, r2 \in Requests :
        /\ reqs[r1].path = "/acs" /\ reqs[r2].path = "/acs"
        /\ JSONParse(reqs[r1].body.RelayState).appName = "acme"
        /\ JSONParse(reqs[r2].body.RelayState).appName = "portal"
        /\ responses[r1] # <<>> /\ responses[r1][1].location = Url("https://acme.test/app")
        /\ responses[r2] # <<>> /\ responses[r2][1].location = Url("/")

\* C19: in an acs flow the worker and the callback read the same RelayState:
\* the names the worker parsed are those of the RelayState of the request; the
\* identity provider it loads is the one named there; the record carries the
\* parsed RelayState and the cookie options of the application named there;
\* and the redirect of the callback is the one of the application the record
\* names.
C19_RelayStateConsistent ==
    \A u \in Units :
        LET r == units[u].req
            w == units[u]
            parsed == JSONParse(reqs[r].body.RelayState)
        IN w.workerData.endpoint = "acs" =>
            /\ w.relayState.ok => w.relayState = parsed
            /\ w.idp # NoIdp =>
                  /\ w.idp.sso_login_url = Str(IDPLoginEndpointOf(parsed.idpName))
                  /\ \A f \in Range(w.reads) :
                        f \in {"sp/cert.cer", "sp/key.pem", IdpCertFile(parsed.idpName)}
            /\ w.authData.kind = "authData" =>
                  /\ w.authData.relay_state = parsed
                  /\ w.authData.cookie_options.domain = CookieDomainOf(parsed.appName)
                  /\ w.authData.cookie_options.path = CookiePathOf(parsed.appName)
            /\ Replied(r) /\ responses[r] # <<>> =>
                  LET app == calls[r][1].value.relay_state.appName IN
                  responses[r][1].location =
                      Url(IF LocalClientUrlOf(app) # "" THEN LocalClientUrlOf(app) ELSE "/")

\* A login to portal was answered: the record names portal and okta, carries
\* the cookie options of portal, and the redirect is the one of portal.
C19_Witness ==
    \E u \in Units :
        /\ units[u].workerData.endpoint = "acs"
        /\ units[u].authData.relay_state.appName = "portal"
        /\ units[u].authData.relay_state.idpName = "okta"
        /\ units[u].authData.cookie_options.domain = ".portal.test"
        /\ Replied(units[u].req)
        /\ responses[units[u].req] # <<>>
        /\ responses[units[u].req][1].location = Url("/")

\* What an acs worker does with its own request, the credential files and the
\* settings, up to the store: the error it stops with, or the record it hands
\* to storeAuthData.
AcsOutcome(u) ==
    LET body == units[u].workerData.body
        sp == GetServiceProvider(files["sp/cert.cer"], files["sp/key.pem"], settings.Debug)
        relayState == JSONParse(body.RelayState)
        idp == ReadFile(IdentityProviderOptions(relayState.idpName), "certificates",
                        files[IdpCertFile(relayState.idpName)], settings.Debug)
        v == PostAssert(idp.obj, PostAssertOptions(body))
        failure(e) == [ok |-> FALSE, error |-> e, authData |-> NoAuthData]
    IN IF ~sp.ok THEN failure(sp.error)
       ELSE IF ~relayState.ok THEN failure(JsonSyntaxError)
       ELSE IF ~HasSection(relayState.idpName) THEN failure(UndefinedSectionError)
       ELSE IF ~idp.ok THEN failure(idp.error)
       ELSE IF ~v.ok THEN failure(v.error)
       ELSE IF ~HasSection(relayState.appName) THEN failure(UndefinedSectionError)
       ELSE [ok |-> TRUE, error |-> NoError,
             authData |-> AcsAuthData(settings, relayState, v.user, Now(u))]

\* C20: the workers of metadata and of the redirect never open a connection
\* and never build or store a record; every row of the table is the row an
\* acs or cookie worker stored; and what an acs worker ends with is fixed by
\* its own request, the credential files and the settings (and by the
\* database when it stores), whatever requests were handled before it.
C20_NoStateBetweenRedirectAndAssertion ==
    /\ \A u \in Units :
          units[u].workerData.endpoint \in {"metadata", "sso_redirect", "spinitsso_redirect"} =>
              /\ units[u].conn = "none" /\ units[u].connects = 0 /\ units[u].execs = 0
              /\ units[u].authData = NoAuthData /\ units[u].stored = <<>>
    /\ \A row \in table :
          \E u \in Units :
              /\ units[u].workerData.endpoint \in {"acs", "cookie"}
              /\ units[u].stored = <<row>>
    /\ \A u \in Units :
          units[u].workerData.endpoint = "acs" =>
              /\ units[u].pc = "failed" /\ ~StoreFailed(u) =>
                    ~AcsOutcome(u).ok /\ units[u].err = AcsOutcome(u).error
              /\ units[u].pc = "done" \/ StoreFailed(u) =>
                    AcsOutcome(u).ok /\ units[u].authData = AcsOutcome(u).authData

\* A redirect to the identity provider was sent, an assertion was consumed
\* after it, and the table holds the row of the assertion and nothing else.
C20_Witness ==
    \E u1, u2 \in Units :
        /\ u1 < u2
        /\ units[u1].workerData.endpoint = "sso_redirect"
        /\ responses[units[u1].req] # <<>>
        /\ responses[units[u1].req][1].status = 302
        /\ units[u2].workerData.endpoint = "acs"
        /\ units[u2].pc = "done"
        /\ table = {units[u2].stored[1]}

\* C21: while the front end runs, the step a worker waits for and the
\* delivery of the event it emitted can be taken whatever the other workers
\* are doing, suspended ones included: no worker waits for another, and no
\* delivery waits for the delivery of an earlier request.
C21_UnitsIndependent ==
    \A u \in Units :
        ~crashed =>
            /\ units[u].live /\ units[u].pc = "getServiceProvider" =>
                  ENABLED OnServiceProviderOptions(u)
            /\ units[u].live /\ units[u].pc = "readIdpCert" => ENABLED ReadIdpCertDone(u)
            /\ units[u].live /\ units[u].pc = "loginRequest" => ENABLED OnLoginRequest(u)
            /\ units[u].live /\ units[u].pc = "postAssert" =>
                  ENABLED OnAssertionValidation(u)
            /\ units[u].live /\ units[u].pc = "dbConnect" => ENABLED OnConnect(u)
            /\ units[u].live /\ units[u].pc = "dbExec" => ENABLED OnExecSQL(u)
            /\ InFlight(u, "message") => ENABLED OnMessage(u)
            /\ InFlight(u, "error") => ENABLED OnError(u)

\* The second request was answered through its callback while the worker of
\* the first, dispatched before it, is still waiting for the database.
C21_Witness ==
    \E u1, u2 \in Units :
        /\ units[u1].req < units[u2].req
        /\ units[u1].live /\ units[u1].pc = "dbExec"
        /\ Replied(units[u2].req)
        /\ Len(responses[units[u2].req]) = 1
        /\ responses[units[u1].req] = <<>>

\* C22: there is no timeout and no cancellation. While the front end runs, a
\* worker that waits for an external call that has not completed is still
\* running, nothing has been delivered for its request and its request has
\* received no response: only the arrival of its own message or error ends it.
C22_NoCancellationNoTimeout ==
    \A u \in Units :
        ~crashed /\ units[u].pc \notin {"done", "failed"} =>
            /\ units[u].live
            /\ outbox[u] = <<>>
            /\ calls[units[u].req] = <<>>
            /\ responses[units[u].req] = <<>>

\* A worker still waits for the database connection, unanswered, after
\* the request dispatched after it ran to its end and its worker was ended.
C22_Witness ==
    \E u1, u2 \in Units :
        /\ units[u1].req < units[u2].req
        /\ units[u1].live /\ units[u1].pc = "dbConnect"
        /\ responses[units[u1].req] = <<>>
        /\ units[u2].pc \in {"done", "failed"} /\ ~units[u2].live
        /\ Len(responses[units[u2].req]) = 1

\* C23 as stated: every request to a service that requires authentication
\* whose x-api-key header is missing or differs from the key of the
\* deployment is answered with 403, whatever the route, and no worker is
\* created for it. (Fails when MIDDLEWARE_API_KEY is not set: a request
\* without the header passes the check.)
C23_Original ==
    \A r \in Requests :
        /\ Auth(reqs[r].service)
        /\ responses[r] # <<NotFound>>
        /\ reqs[r].headers.x_api_key = "undefined" \/ reqs[r].headers.x_api_key # env
        => /\ Len(responses[r]) = 1 /\ responses[r][1].status = 403
           /\ \A u \in Units : units[u].req # r

\* The cookies of request r are named name and carry the message worker u
\* posted, field by field the record u handed to the store.
CookieOfRecord(r, u, name) ==
    /\ CookiesOf(r) # {}
    /\ units[u].stored # <<>>
    /\ \A c \in CookiesOf(r) :
          /\ c.name = name
          /\ c.value.json = units[u].authData
          /\ c.value.json.name_id = units[u].stored[1].name_id
          /\ c.value.json.session_index = units[u].stored[1].session_index

\* C24 as stated: on every successful /acs or /cookie request the cookie is
\* the serialisation of the record that was persisted, its subject, session
\* index and timestamp equal to those of the row written, under a fixed name
\* that differs between the two endpoints. (Fails for the timestamp: the row
\* holds it in three-hundredths of a second.)
C24_Original ==
    \A u \in Units :
        LET r == units[u].req IN
        reqs[r].path \in {"/acs", "/cookie"} /\ Replied(r) /\ responses[r] # <<>> =>
            /\ CookieOfRecord(r, u, IF reqs[r].path = "/acs" THEN "SAML_Login_Session"
                                    ELSE "SAML_Test_Session")
            /\ \A c \in CookiesOf(r) :
                  10 * units[u].stored[1].auth_time = 3 * c.value.json.auth_time

\* C24, amended: as above, except that the timestamp of the row is the
\* timestamp of the cookie rounded to a three-hundredth of a second, so the
\* two differ by less than two milliseconds.
C24_CookieIsPersistedRecord ==
    \A u \in Units :
        LET r == units[u].req IN
        reqs[r].path \in {"/acs", "/cookie"} /\ Replied(r) /\ responses[r] # <<>> =>
            /\ CookieOfRecord(r, u, IF reqs[r].path = "/acs" THEN "SAML_Login_Session"
                                    ELSE "SAML_Test_Session")
            /\ \A c \in CookiesOf(r) :
                  LET sent == 10 * units[u].stored[1].auth_time
                      kept == 3 * c.value.json.auth_time
                  IN /\ units[u].stored[1].auth_time = DateTime(c.value.json.auth_time)
                     /\ sent - kept \in -5..5

\* A test cookie and a login cookie were sent, under their two names; the
\* timestamp of the second is not a whole number of three-hundredths.
C24_Witness ==
    \E r1, r2 \in Requests :
        /\ reqs[r1].path = "/cookie" /\ reqs[r2].path = "/acs"
        /\ \E c \in CookiesOf(r1) : c.name = "SAML_Test_Session"
        /\ \E c \in CookiesOf(r2) :
              /\ c.name = "SAML_Login_Session"
              /\ (3 * c.value.json.auth_time) % 10 # 0
              /\ \E row \in table : row.name_id = c.value.json.name_id

\* C25: when several workers store records for the same subject, the merge
\* statements taking effect one at a time, the table holds exactly one row for
\* the subject in every interleaving, and that row is, whole, the row of one
\* of the statements executed for the subject: its session index and its
\* timestamp come from the same store.
C25_ConcurrentStoresOneRow ==
    \A u \in Units :
        units[u].stored # <<>> =>
            LET n == units[u].stored[1].name_id
                rows == {x \in table : x.name_id = n}
            IN /\ Cardinality(rows) = 1
               /\ \A x \in rows :
                     \E v \in Units :
                        /\ units[v].stored = <<x>>
                        /\ x.session_index = Row(units[v].authData).session_index
                        /\ x.auth_time = Row(units[v].authData).auth_time

\* Two workers had their connections to the database open at the same time
\* with records of the same subject and different session indices, and the
\* second one's statement has been executed before the first one's.
C25_Witness ==
    \E u1, u2 \in Units :
        /\ u1 < u2
        /\ units[u1].pc = "dbExec" /\ units[u1].conn = "open"
        /\ units[u2].stored # <<>>
        /\ units[u1].authData.name_id = units[u2].authData.name_id
        /\ units[u1].authData.session_index # units[u2].authData.session_index
        /\ \E x \in table : x = units[u2].stored[1]

\* The endpoint of worker u has been looked up: its method runs or ran, or the
\* lookup found no method.
LookedUp(u) ==
    \/ units[u].pc \notin {"getServiceProvider", "failed"}
    \/ units[u].pc = "failed" /\ units[u].err \notin
          {CredentialUnreadableError, files["sp/cert.cer"].error, files["sp/key.pem"].error}
    \/ Len(units[u].reads) > 2

\* C26: the certificate of the service provider is read first and its key
\* second; the endpoint is looked up only with both loaded into the
\* descriptor. When the certificate cannot be read the key is never read,
\* and when either cannot be read the endpoint is never looked up, no method
\* runs and the worker ends in an error.
C26_DescriptorBeforeEndpoint ==
    \A u \in Units :
        LET w == units[u] IN
        /\ Len(w.reads) >= 1 => w.reads[1] = "sp/cert.cer"
        /\ Len(w.reads) >= 2 => w.reads[2] = "sp/key.pem" /\ files["sp/cert.cer"].ok
        /\ \A i \in DOMAIN w.reads : i > 2 => w.reads[i] \notin {"sp/cert.cer", "sp/key.pem"}
        /\ LookedUp(u) =>
              /\ Len(w.reads) >= 2
              /\ w.sp.certificate = Str(FileContent("sp/cert.cer"))
              /\ w.sp.private_key = Str(FileContent("sp/key.pem"))
        /\ w.pc # "getServiceProvider"
              /\ ~(files["sp/cert.cer"].ok /\ files["sp/key.pem"].ok) =>
              /\ w.pc = "failed" /\ ~LookedUp(u)
              /\ NothingBeyondCredentials(u)
              /\ w.reads = IF files["sp/cert.cer"].ok THEN <<"sp/cert.cer", "sp/key.pem">>
                           ELSE <<"sp/cert.cer">>

\* The certificate could not be read while the key could: the worker ended
\* after that one read, the key never loaded, and its request was answered
\* with an error.
C26_Witness ==
    \E u \in Units :
        /\ ~files["sp/cert.cer"].ok /\ files["sp/key.pem"].ok
        /\ units[u].pc = "failed" /\ units[u].reads = <<"sp/cert.cer">>
        /\ units[u].sp.private_key = Str("")
        /\ Failed(units[u].req)

C28_AtMostOneMessage ==
    \A u \in Units :
        /\ MessagesOf(u) <= 1
        /\ units[u].pc = "done" => MessagesOf(u) = 1 /\ ErrorsOf(u) = 0
        /\ units[u].pc = "failed" => MessagesOf(u) = 0 /\ ErrorsOf(u) = 1
        /\ units[u].pc \notin {"done", "failed"} => MessagesOf(u) = 0 /\ ErrorsOf(u) = 0

\* Workers of two endpoints ended, one having posted its one message, which
\* has been delivered, and one having raised its error after a store was
\* attempted.
C28_Witness ==
    \E u1, u2 \in Units :
        /\ units[u1].workerData.endpoint = "metadata" /\ units[u1].pc = "done"
        /\ Replied(units[u1].req) /\ outbox[u1] = <<>>
        /\ units[u2].workerData.endpoint \in {"acs", "cookie"}
        /\ units[u2].pc = "failed" /\ units[u2].connects = 1
        /\ MessagesOf(u2) = 0

\* The routers mounted for a service.
MountsOf(service) == {i \in DOMAIN mounted : mounted[i].service = service}

\* C29: the router of a service is mounted exactly when registerService was
\* called for it, its section is enabled and its init returned; a failing
\* init (the AI service configured with a provider other than OpenAI and
\* Google) mounts nothing, so that every route of the service, the health
\* check included, is answered 404 and starts no worker; the failure stays
\* inside registerService, and the services registered afterwards are mounted.
C29_MountedWhenEnabledAndInitialised ==
    /\ ~crashed
    /\ \A i \in DOMAIN registered :
          LET service == registered[i].service
              initialised == service = "AI" => settings.Service \in SupportedServices
          IN /\ registered[i].outcome =
                    IF service \notin settings.Enabled THEN "disabled"
                    ELSE IF initialised THEN "added" ELSE "failed"
             /\ Cardinality(MountsOf(service)) =
                    IF registered[i].outcome = "added" THEN 1 ELSE 0
             /\ registered[i].outcome = "added" =>
                    \A j \in MountsOf(service) : mounted[j].router = ServiceInit(service, settings).router
    /\ \A service \in ServiceNames :
          MountsOf(service) # {} => \E i \in DOMAIN registered : registered[i].service = service
    /\ \A r \in Requests :
          MountsOf(reqs[r].service) = {} =>
              /\ responses[r] = <<NotFound>>
              /\ \A u \in Units : units[u].req # r

\* The init of the AI service failed; the SAML service, registered after it,
\* is mounted and answers its health check, while a request to the AI
\* service, made with the right key, found no route.
C29_Witness ==
    /\ Len(registered) = 2
    /\ registered[1] = Registration("AI", "failed")
    /\ registered[2] = Registration("SAML", "added")
    /\ \E r1, r2 \in Requests :
          /\ reqs[r1].service = "AI" /\ reqs[r1].headers.x_api_key = env
          /\ responses[r1] = <<NotFound>>
          /\ reqs[r2].service = "SAML" /\ responses[r2] = <<CheckState("SAML")>>

\* C30: the max-age of every record and of every cookie sent is a positive
\* number of milliseconds, 60000 times CookieTimeout when that is a non-zero
\* number and 60000 when it is unset or zero; the record of a /cookie request
\* without an application name has the domain '.example.com' and the path '/'.
C30_MaxAgePositiveAndFallbacks ==
    \A u \in Units :
        units[u].authData.kind = "authData" =>
            LET options == units[u].authData.cookie_options
                sent == {c.options : c \in CookiesOf(units[u].req)}
            IN /\ \A o \in {options} \cup sent :
                     /\ o.maxAge > 0
                     /\ settings.CookieTimeout # 0 => o.maxAge = settings.CookieTimeout * 60000
                     /\ settings.CookieTimeout = 0 => o.maxAge = 60000
               /\ units[u].workerData.endpoint = "cookie"
                     /\ units[u].workerData.query.appName = "" =>
                     \A o \in {options} \cup sent :
                        o.domain = ".example.com" /\ o.path = "/"

\* With CookieTimeout unset, a /cookie request without an application name
\* was answered with a cookie for '.example.com' and '/' that lasts a minute.
C30_Witness ==
    \E u \in Units :
        /\ settings.CookieTimeout = 0
        /\ units[u].workerData.endpoint = "cookie"
        /\ units[u].workerData.query.appName = ""
        /\ \E c \in CookiesOf(units[u].req) :
              c.options.maxAge = 60000 /\ c.options.domain = ".example.com"
                  /\ c.options.path = "/"

\* C31: a call of readFile that read its file and found the named property on
\* the options object leaves the object with that property set to the content
\* of the file when the property held a single value, and to a list of
\* exactly that content when it held a list, every other property as it was;
\* a call that read its file and did not find the property fails with the
\* invalid property error and leaves the object as it was; a call whose read
\* failed fails and leaves the object as it was. Each call starts from the
\* object the call before it left.
C31_LoaderFrame ==
    /\ descriptor = IF loads = <<>> THEN descriptor ELSE loads[Len(loads)].after
    /\ \A i \in DOMAIN loads :
          LET l == loads[i]
              content == FileContent(l.file)
          IN /\ i > 1 => l.before = loads[i - 1].after
             /\ files[l.file].ok /\ l.property \in DOMAIN l.before =>
                   /\ l.ok
                   /\ DOMAIN l.after = DOMAIN l.before
                   /\ l.before[l.property].t = "string" =>
                         l.after[l.property] = Str(content)
                   /\ l.before[l.property].t = "array" =>
                         /\ l.after[l.property].t = "array"
                         /\ l.after[l.property].v = <<content>>
                   /\ \A p \in DOMAIN l.before :
                         p # l.property => l.after[p] = l.before[p]
             /\ files[l.file].ok /\ l.property \notin DOMAIN l.before =>
                   /\ ~l.ok
                   /\ l.error = InvalidPropertyError
                   /\ l.after = l.before
             /\ ~files[l.file].ok =>
                   /\ ~l.ok
                   /\ l.error \in {files[l.file].error, CredentialUnreadableError}
                   /\ l.after = l.before

\* The list of certificates of an identity provider was loaded from one file
\* and then from another, and holds the content of the second alone.
C31_Witness ==
    /\ Len(loads) = 2
    /\ loads[1].ok /\ loads[2].ok
    /\ loads[1].property = "certificates" /\ loads[2].property = "certificates"
    /\ loads[1].file # loads[2].file
    /\ loads[1].after.certificates.v = <<FileContent(loads[1].file)>>
    /\ descriptor.certificates.v = <<FileContent(loads[2].file)>>

====
